---- MODULE Spec2Model ----
(***************************************************************************)
(* Wardex: the shield orchestrator (packages/core/src/shield.ts), the      *)
(* middleware pipeline and its stages, and the isolated signer's approval  *)
(* tokens (packages/signer).                                               *)
(*                                                                         *)
(* Abstractions used throughout:                                           *)
(*  - wei amounts are counted in units of 10^18 wei (1 ETH), so that the   *)
(*    value assessor's Number(wei) / 1e18 * ethPrice is exact;             *)
(*  - crypto.randomUUID() is an ideal source of fresh identifiers, drawn   *)
(*    from the counter nextUuid;                                           *)
(*  - HMAC-SHA256 is an ideal (injective) function of its key and input;   *)
(*  - a riskScores component that is undefined in the source is 0 here:    *)
(*    every read of one in the source applies `?? 0`.                      *)
(***************************************************************************)
EXTENDS Integers, Sequences, FiniteSets, TLC

VARIABLES
    \* ---- shield (createShield closure state, shield.ts:33-47)
    policy, frozen, freezeReason, evaluationCount, blockCount, advisoryCount,
    dailyVolumeWei, dailyVolumeResetDate, auditLog, customMiddlewares,
    escalationTracker,  \* the context analyzer's recentTransactionValues
    \* ---- environment of the shield
    today,        \* new Date().toDateString(), as a day number
    nextUuid,     \* crypto.randomUUID(), as a counter
    inflight,     \* evaluate calls suspended at `await pipeline(...)`
    returned,     \* the last step: the operation, its outcome, the
                  \* operator callbacks it invoked
    started,      \* number of evaluate calls made so far
    settled,      \* number of evaluate calls resolved or rejected so far
    evaluatedValues,  \* history: the estimated USD value and the time of
                      \* the evaluations with context followed by
                      \* evaluateWithContextTimed
    ledger,       \* history: the values approved per day, for the
                  \* evaluations followed by evaluateDaily and ResumeDaily
    sinceUnfreeze,  \* history: whether unfreeze() has been called, and the
                    \* number of 'block' verdicts returned since, for the
                    \* calls followed by ResumeWindow and unfreezeWindow
    \* ---- one pipeline run, stage by stage
    pctx, ppc,
    \* ---- signer
    now,          \* Date.now(), in milliseconds
    ticks,        \* number of times the clock has moved
    minted,       \* the approval token in circulation (none, or the last
                  \* one generated, with the arguments it was generated from)
    lastCall,     \* the last call to the signer package and its result
    signatures,   \* history: the approval tokens signFn has returned a
                  \* signature for, in order, as followed by SignRequest
    conn,         \* one connection accepted by the signer server
    client        \* one SignerClient.sendRequest call

shieldVars == <<policy, frozen, freezeReason, evaluationCount, blockCount,
                advisoryCount, dailyVolumeWei, dailyVolumeResetDate, auditLog,
                customMiddlewares, today, nextUuid, inflight, returned,
                started, settled, escalationTracker, evaluatedValues, ledger,
                sinceUnfreeze>>
trackVars == <<escalationTracker, evaluatedValues, ledger, sinceUnfreeze>>
pipeVars == <<pctx, ppc>>
ipcVars == <<conn, client>>
signerVars == <<now, ticks, minted, lastCall, signatures, ipcVars>>
vars == <<shieldVars, pipeVars, signerVars>>

(***************************************************************************)
(* Bounds of the model.                                                    *)
(***************************************************************************)
MaxEvals == 3
MaxFreezeEvals == 6
MaxInFlight == 1
MaxCustom == 1
MaxTicks == 3
MaxLimitEvals == 6
MaxDays == 1
MaxComposeCustom == 2

(***************************************************************************)
(* Program constants.                                                      *)
(***************************************************************************)
AUDIT_LOG_MAX == 10000
AUTO_FREEZE_WINDOW == 10
AUTO_FREEZE_BLOCKS == 5
APPROVAL_TOKEN_MAX_AGE_MS == 300000
DEFAULT_ETH_PRICE_USD == 3500
INFINITE_APPROVAL_USD == 100000
TOKEN_LENGTH == 80
MAC_HEX_LENGTH == 64
TS_HEX_LENGTH == 16
ESCALATION_WINDOW_MS == 1800000
ESCALATION_THRESHOLD == 5

(***************************************************************************)
(* Small helpers.                                                          *)
(***************************************************************************)
Min(a, b) == IF a < b THEN a ELSE b
Max(a, b) == IF a > b THEN a ELSE b

\* Array.prototype.slice(-n)
SliceLast(s, n) == IF Len(s) <= n THEN s ELSE SubSeq(s, Len(s) - n + 1, Len(s))

(***************************************************************************)
(* Transactions.  `to` is a symbolic address string, `value` and `data`    *)
(* are the classes of strings the code distinguishes.                      *)
(*   value.kind: "undef" (absent), "int" (a decimal integer n, possibly    *)
(*               negative), "nan" (not parseable by BigInt)                *)
(*   data.kind:  "undef", "0x", "approve", "transfer", "multicall",        *)
(*               "unknown" (hex, unknown selector), "nothex" (not a hex    *)
(*               string, no known selector), "approveBadHex" and           *)
(*               "setApprovalBadHex" (known selector followed by non-hex   *)
(*               parameter words)                                          *)
(*   data.amt:   the approve amount: "small", "pow128" (exactly 2^128),    *)
(*               "inf" (above 2^128), or "na"                              *)
(***************************************************************************)
WellFormedAddresses == {"0xa1", "0xA1", "0xd1", "0xD1"}

\* String.prototype.toLowerCase on the symbolic addresses
ToLowerCase(a) ==
    CASE a = "0xA1" -> "0xa1"
      [] a = "0xD1" -> "0xd1"
      [] a = "D1" -> "d1"
      [] OTHER -> a

isValidEthereumAddress(address) == address \in WellFormedAddresses

IntValue(n) == [kind |-> "int", n |-> n]
UndefValue == [kind |-> "undef", n |-> 0]
NanValue == [kind |-> "nan", n |-> 0]

Data(kind, amt) == [kind |-> kind, amt |-> amt]
NoData == Data("undef", "na")

HexDataKinds == {"0x", "approve", "transfer", "multicall", "unknown"}

\* BigInt(x ?? '0'): throws a SyntaxError on an unparseable string
BigIntThrows(v) == v.kind = "nan"
BigIntOf(v) == IF v.kind = "int" THEN v.n ELSE 0

validateTransactionRequest(tx) ==
    IF tx.to = "" THEN "missing-to"
    ELSE IF ~isValidEthereumAddress(tx.to) THEN "invalid-to"
    ELSE IF tx.chainId <= 0 THEN "invalid-chainId"
    ELSE IF tx.value.kind = "int" /\ tx.value.n < 0 THEN "negative-value"
    ELSE IF tx.value.kind = "nan" THEN "invalid-value"
    ELSE IF tx.data.kind # "undef" /\ tx.data.kind \notin HexDataKinds
         THEN "invalid-data"
    ELSE "null"

(***************************************************************************)
(* Reasons, tiers, policies, verdicts.                                     *)
(***************************************************************************)
Reason(code, severity, source) ==
    [code |-> code, severity |-> severity, source |-> source]

Tier(id, mode, blockThreshold, minUsd, addrs, fns, timeLock) ==
    [id |-> id,
     triggers |-> [minValueAtRiskUsd |-> minUsd, hasMax |-> FALSE,
                   maxValueAtRiskUsd |-> 0,
                   targetAddresses |-> addrs, functionSignatures |-> fns],
     enforcement |-> [mode |-> mode, blockThreshold |-> blockThreshold,
                      timeLockSeconds |-> timeLock]]

\* ctx.tier undefined
NoTier == Tier("undefined", "none", 0, 0, {}, {}, 0)

Policy(tiers, allow, deny, maxTx, maxDaily) ==
    [tiers |-> tiers,
     allowlists |-> [addresses |-> allow, contracts |-> {}],
     denylists |-> [addresses |-> deny],
     limits |-> [maxTransactionValueWei |-> maxTx,
                 maxDailyVolumeWei |-> maxDaily],
     contextAnalysis |-> [enablePromptInjectionDetection |-> TRUE,
                          enableCoherenceChecking |-> TRUE,
                          enableEscalationDetection |-> TRUE,
                          enableSourceVerification |-> TRUE]]

\* ctx.conversationContext undefined
NoConversation ==
    [present |-> FALSE, injections |-> {}, trustLevel |-> "high",
     sourceType |-> "user", toolInjection |-> FALSE, coherent |-> TRUE]

Conversation(injections, trustLevel, sourceType, toolInjection, coherent) ==
    [present |-> TRUE, injections |-> injections, trustLevel |-> trustLevel,
     sourceType |-> sourceType, toolInjection |-> toolInjection,
     coherent |-> coherent]

Uuid(n) == <<"uuid", n>>
NoId == <<"none", 0>>
TamperedId == <<"tampered", 0>>

NoVerdict ==
    [decision |-> "undefined", reasons |-> <<>>, requiredAction |-> "none",
     delaySeconds |-> 0, evaluationId |-> NoId, tierId |-> "undefined",
     tierMode |-> "none", composite |-> 0]

NoDecoded ==
    [present |-> FALSE, functionName |-> "undefined", isApproval |-> FALSE,
     isTransfer |-> FALSE, involvesEth |-> FALSE, hasParameters |-> FALSE,
     amount |-> "na", estimatedValueUsd |-> 0]

\* what the intelligence provider's getContractAnalysis gives for the target
ContractAnalysis(hasSelfDestruct, hasUnsafeDelegatecall, isVerified, isProxy, risk, allowsInfiniteApproval) ==
    [present |-> TRUE, hasSelfDestruct |-> hasSelfDestruct,
     hasUnsafeDelegatecall |-> hasUnsafeDelegatecall,
     isVerified |-> isVerified, isProxy |-> isProxy, risk |-> risk,
     allowsInfiniteApproval |-> allowsInfiniteApproval, throws |-> FALSE]

\* no provider configured, or the provider returned null
NoAnalysis ==
    [ContractAnalysis(FALSE, FALSE, TRUE, FALSE, "safe", FALSE)
       EXCEPT !.present = FALSE]

\* getContractAnalysis rejects
ThrowingAnalysis == [NoAnalysis EXCEPT !.present = TRUE, !.throws = TRUE]

\* what getReputation gives for the target: an AddressReputation with its
\* age, its transaction count, the number of its risk factors and whether
\* its labels include 'contract'
Reputation(ageDays, transactionCount, riskFactors, isContract) ==
    [provider |-> "data", ageDays |-> ageDays,
     transactionCount |-> transactionCount, riskFactors |-> riskFactors,
     isContract |-> isContract]

\* createAddressChecker() without getReputation; getReputation resolving to
\* null; getReputation rejecting
NoReputation == [Reputation(0, 0, 0, FALSE) EXCEPT !.provider = "none"]
NullReputation == [Reputation(0, 0, 0, FALSE) EXCEPT !.provider = "null"]
ThrowingReputation == [Reputation(0, 0, 0, FALSE) EXCEPT !.provider = "throws"]

\* createMiddlewareContext (pipeline.ts:93-130).  `behavior` is the finding
\* the behavioral comparator will report, `uuid` the identifier the next
\* randomUUID() call returns; `analysis` (what the contract checker's
\* provider will return) starts as NoAnalysis.  `index` is compose's
\* `let index = -1` for the run on this context, `error` the message of the
\* Error compose itself raised, `stagesRun` the stages entered so far.
\* `tracker` is the context analyzer's escalationTracker as this run finds
\* and leaves it, `now` is Date.now() during the run.
createMiddlewareContext(tx, conv, pol, behavior, uuid) ==
    [transaction |-> tx, conversationContext |-> conv, policy |-> pol,
     riskScores |-> [context |-> 0, transaction |-> 0, behavioral |-> 0,
                     composite |-> 0],
     reasons |-> <<>>, tier |-> NoTier, decoded |-> NoDecoded,
     verdict |-> NoVerdict, estimatedValueUsd |-> 0,
     behavior |-> behavior, analysis |-> NoAnalysis,
     reputation |-> NoReputation,
     uuid |-> uuid, uuidsUsed |-> 0,
     threw |-> FALSE, error |-> "", index |-> -1, stagesRun |-> <<>>,
     tracker |-> <<>>, now |-> 0]

Push(ctx, reason) == [ctx EXCEPT !.reasons = Append(@, reason)]
Throw(ctx) == [ctx EXCEPT !.threw = TRUE]
Ran(ctx, stage) == [ctx EXCEPT !.stagesRun = Append(@, stage)]

(***************************************************************************)
(* Stage 1: context analyzer.                                              *)
(***************************************************************************)
INJECTION_PATTERNS ==
    << [name |-> "IGNORE_INSTRUCTIONS", severity |-> "critical"],
       [name |-> "ROLE_OVERRIDE", severity |-> "high"],
       [name |-> "SYSTEM_PROMPT_INJECTION", severity |-> "critical"],
       [name |-> "JAILBREAK_PATTERN", severity |-> "critical"],
       [name |-> "BASE64_INSTRUCTION", severity |-> "high"],
       [name |-> "HIDDEN_INSTRUCTION_MARKER", severity |-> "high"],
       [name |-> "URGENCY_MANIPULATION", severity |-> "medium"],
       [name |-> "AUTHORIZATION_CLAIM", severity |-> "high"],
       [name |-> "SEED_PHRASE_REQUEST", severity |-> "critical"],
       [name |-> "REDIRECT_FUNDS", severity |-> "high"] >>

RECURSIVE InjectionReasons(_, _)
InjectionReasons(found, i) ==
    IF i > Len(INJECTION_PATTERNS) THEN <<>>
    ELSE (IF INJECTION_PATTERNS[i].name \in found
          THEN << Reason("INJECTION_" \o INJECTION_PATTERNS[i].name,
                         INJECTION_PATTERNS[i].severity, "context") >>
          ELSE <<>>) \o InjectionReasons(found, i + 1)

evaluateSource(conv) ==
    (IF conv.trustLevel = "untrusted"
     THEN << Reason("UNTRUSTED_SOURCE", "critical", "context") >> ELSE <<>>)
    \o (IF conv.sourceType = "unknown"
        THEN << Reason("UNKNOWN_SOURCE", "high", "context") >> ELSE <<>>)
    \o (IF conv.toolInjection
        THEN << Reason("CROSS_MCP_INJECTION", "critical", "context") >>
        ELSE <<>>)

checkCoherence(conv) ==
    IF conv.coherent THEN <<>>
    ELSE << Reason("INCOHERENT_CONTEXT", "medium", "context") >>

ContextWeight ==
    [critical |-> 40, high |-> 25, medium |-> 15, low |-> 5, info |-> 0]

RECURSIVE SumSeq(_)
SumSeq(s) == IF s = <<>> THEN 0 ELSE Head(s) + SumSeq(Tail(s))

\* the sum, over the reasons of one source, of the weight W gives their
\* severity
SumWeights(reasons, source, W) ==
    SumSeq([i \in 1..Len(reasons) |->
              IF reasons[i].source = source THEN W[reasons[i].severity] ELSE 0])

\* oldest.valueUsd > 0 && newest.valueUsd / oldest.valueUsd >= 5; the
\* values are whole numbers of dollars
Escalated(newestUsd, oldestUsd) ==
    oldestUsd > 0 /\ newestUsd >= ESCALATION_THRESHOLD * oldestUsd

\* detectEscalation: the tracker it leaves, and whether it returns a
\* VALUE_ESCALATION reason
detectEscalation(tracker, currentValueUsd, at) ==
    LET kept == SelectSeq(tracker,
                          LAMBDA t : at - t.timestamp < ESCALATION_WINDOW_MS)
        pushed == Append(kept, [valueUsd |-> currentValueUsd, timestamp |-> at])
    IN  [tracker |-> pushed,
         escalated |-> /\ Len(pushed) >= 2
                       /\ Escalated(pushed[Len(pushed)].valueUsd,
                                    pushed[1].valueUsd)]

\* ctx.decoded is set by the transaction decoder, so the escalation step
\* (enableEscalationDetection && ctx.decoded) is taken only when a decoded
\* transaction is already on the context when this stage runs.
contextAnalyzer(ctx) ==
    LET conv == ctx.conversationContext
        cfg == ctx.policy.contextAnalysis
    IN  IF ~conv.present THEN Ran(ctx, "contextAnalyzer")
        ELSE
          LET detects == cfg.enableEscalationDetection /\ ctx.decoded.present
              escalation == detectEscalation(ctx.tracker,
                                             ctx.decoded.estimatedValueUsd,
                                             ctx.now)
              found ==
                (IF cfg.enablePromptInjectionDetection
                 THEN InjectionReasons(conv.injections, 1) ELSE <<>>)
                \o (IF cfg.enableSourceVerification
                    THEN evaluateSource(conv) ELSE <<>>)
                \o (IF cfg.enableCoherenceChecking
                    THEN checkCoherence(conv) ELSE <<>>)
                \o (IF detects /\ escalation.escalated
                    THEN << Reason("VALUE_ESCALATION", "high", "context") >>
                    ELSE <<>>)
              reasons == ctx.reasons \o found
          IN  Ran([ctx EXCEPT
                     !.tracker = IF detects THEN escalation.tracker ELSE @,
                     !.reasons = reasons,
                     !.riskScores.context =
                        Min(100, SumWeights(reasons, "context", ContextWeight))],
                  "contextAnalyzer")

(***************************************************************************)
(* Stage 2: transaction decoder.                                           *)
(***************************************************************************)
decodeSelector(data) ==
    CASE data.kind \in {"approve", "approveBadHex"} -> "approve"
      [] data.kind = "setApprovalBadHex" -> "setApprovalForAll"
      [] data.kind = "transfer" -> "transfer"
      [] data.kind = "multicall" -> "multicall"
      [] OTHER -> "undefined"

\* a parameter comparison `value >= 2^128` in place of `value > 2^128`
isInfiniteApprovalInclusive(data) ==
    data.kind = "approve" /\ data.amt \in {"inf", "pow128"}

\* cleaned === MAX_UINT256, or BigInt('0x' + cleaned) > 2^128; a parse
\* failure is caught and gives false
isInfiniteApproval(data) == data.kind = "approve" /\ data.amt = "inf"

transactionDecoder(ctx) ==
    LET tx == ctx.transaction
        data == tx.data
        empty == data.kind \in {"undef", "0x"}
    IN  IF BigIntThrows(tx.value) THEN Throw(ctx)
        ELSE IF data.kind = "setApprovalBadHex" THEN Throw(ctx)
        ELSE
          LET fn == decodeSelector(data)
              eth0 == BigIntOf(tx.value) > 0
              eth == eth0 \/ (empty /\ tx.to # "")
              r1 == IF isInfiniteApproval(data)
                    THEN << Reason("INFINITE_APPROVAL", "critical", "transaction") >>
                    ELSE <<>>
              r2 == IF fn = "multicall"
                    THEN << Reason("MULTICALL_DETECTED", "medium", "transaction") >>
                    ELSE <<>>
              r3 == IF eth /\ ~empty
                    THEN << Reason("ETH_WITH_CALLDATA", "low", "transaction") >>
                    ELSE <<>>
              decoded ==
                [present |-> TRUE, functionName |-> fn,
                 isApproval |-> fn = "approve",
                 isTransfer |-> fn = "transfer" \/ (empty /\ tx.to # ""),
                 involvesEth |-> eth,
                 hasParameters |-> fn \in {"approve", "transfer"},
                 amount |-> IF data.kind = "approveBadHex" THEN "badhex"
                            ELSE data.amt,
                 estimatedValueUsd |-> 0]
          IN  Ran([ctx EXCEPT !.decoded = decoded,
                              !.reasons = @ \o r1 \o r2 \o r3],
                  "transactionDecoder")

(***************************************************************************)
(* Stage 3: value assessor (no token prices configured by the shield).     *)
(***************************************************************************)
valueAssessor(ctx) ==
    LET tx == ctx.transaction
    IN  IF BigIntThrows(tx.value) THEN Throw(ctx)
        ELSE
          LET wei == BigIntOf(tx.value)
              eth == IF wei > 0 THEN wei * DEFAULT_ETH_PRICE_USD ELSE 0
              d == ctx.decoded
              est == IF d.present /\ d.isApproval /\ d.hasParameters
                     THEN (CASE d.amount = "inf" -> Max(eth, INFINITE_APPROVAL_USD)
                             [] d.amount = "badhex" -> Max(eth, 1000)
                             [] OTHER -> eth)
                     ELSE eth
          IN  Ran([ctx EXCEPT
                     !.decoded.estimatedValueUsd = IF d.present THEN est ELSE @,
                     !.estimatedValueUsd = est],
                  "valueAssessor")

(***************************************************************************)
(* Stage 4: address checker.  ctx.reputation is what the reputation        *)
(* provider, if any, does when it is asked about the target.               *)
(***************************************************************************)
\* of the symbolic addresses only "D1" lacks the 0x prefix
normalizeAddress(address) ==
    IF ToLowerCase(address) = "d1" THEN "0xd1" ELSE ToLowerCase(address)

RECURSIVE Repeated(_, _)
Repeated(reason, n) ==
    IF n = 0 THEN <<>> ELSE << reason >> \o Repeated(reason, n - 1)

\* (a failed lookup reported as a finding of severity 'medium')
ReputationReasonsFailureCounts(r, isAllowed) ==
    IF r.provider = "throws"
    THEN << Reason("INTELLIGENCE_UNAVAILABLE", "medium", "address") >>
    ELSE <<>>

\* step 3 of the address checker: the reasons of the reputation lookup
ReputationReasons(r, isAllowed) ==
    CASE r.provider = "throws" ->
           << Reason("INTELLIGENCE_UNAVAILABLE", "info", "address") >>
      [] r.provider = "data" ->
           (IF r.ageDays < 7
            THEN << Reason("NEW_ADDRESS", "medium", "address") >> ELSE <<>>)
           \o (IF r.transactionCount < 5 /\ ~isAllowed
               THEN << Reason("LOW_ACTIVITY_ADDRESS", "low", "address") >>
               ELSE <<>>)
           \o Repeated(Reason("ADDRESS_RISK_FACTOR", "high", "address"),
                       r.riskFactors)
      [] OTHER -> <<>>

AddressWeight ==
    [critical |-> 50, high |-> 25, medium |-> 15, low |-> 5, info |-> 0]

\* (the allowlist consulted before the denylist)
AddressScoreAllowlistFirst(isDenied, isAllowed, reasons) ==
    IF isAllowed THEN 0
    ELSE IF isDenied THEN 100
    ELSE SumWeights(reasons, "address", AddressWeight)

\* step 4 of the address checker
AddressScore(isDenied, isAllowed, reasons) ==
    IF isDenied THEN 100
    ELSE IF isAllowed THEN 0
    ELSE SumWeights(reasons, "address", AddressWeight)

addressChecker(ctx) ==
    LET tx == ctx.transaction
        pol == ctx.policy
    IN  IF tx.to = ""
        THEN Ran(Push(ctx, Reason("CONTRACT_CREATION", "medium", "address")),
                 "addressChecker")
        ELSE
          LET target == normalizeAddress(tx.to)
              isDenied == \E a \in pol.denylists.addresses :
                              normalizeAddress(a) = target
              isAllowed ==
                  \/ \E a \in pol.allowlists.addresses : normalizeAddress(a) = target
                  \/ \E a \in pol.allowlists.contracts : normalizeAddress(a) = target
              reasons == (IF isDenied
                          THEN Append(ctx.reasons,
                                      Reason("DENYLISTED_ADDRESS", "critical", "address"))
                          ELSE ctx.reasons)
                         \o ReputationReasons(ctx.reputation, isAllowed)
              addressScore == AddressScore(isDenied, isAllowed, reasons)
          IN  Ran([ctx EXCEPT
                     !.reasons = reasons,
                     !.riskScores.transaction = Min(100, @ + addressScore)],
                  "addressChecker")

(***************************************************************************)
(* Stage 5: contract checker.  Without a contract-analysis provider (the   *)
(* shield without config.intelligence) ctx.analysis is NoAnalysis and the  *)
(* stage is a passthrough.  A transaction is analysed when it has calldata *)
(* or the reputation on the context labels the target a contract.          *)
(***************************************************************************)
ContractWeight ==
    [critical |-> 40, high |-> 25, medium |-> 10, low |-> 5, info |-> 0]

ContractReasons(a, decoded) ==
    (IF a.hasSelfDestruct
     THEN << Reason("CONTRACT_SELFDESTRUCT", "critical", "contract") >>
     ELSE <<>>)
    \o (IF a.hasUnsafeDelegatecall /\ ~a.isVerified
        THEN << Reason("CONTRACT_UNSAFE_DELEGATECALL", "high", "contract") >>
        ELSE <<>>)
    \o (IF a.isProxy /\ ~a.isVerified
        THEN << Reason("CONTRACT_UNVERIFIED_PROXY", "high", "contract") >>
        ELSE <<>>)
    \o (IF ~a.isVerified /\ a.risk # "safe"
        THEN << Reason("CONTRACT_UNVERIFIED", "medium", "contract") >>
        ELSE <<>>)
    \o (IF a.allowsInfiniteApproval /\ decoded.present /\ decoded.isApproval
        THEN << Reason("CONTRACT_ALLOWS_INFINITE_APPROVAL", "medium", "contract") >>
        ELSE <<>>)

contractChecker(ctx) ==
    LET tx == ctx.transaction
        a == ctx.analysis
        hasCalldata == tx.data.kind \notin {"undef", "0x"}
        knownContract == ctx.reputation.provider = "data" /\ ctx.reputation.isContract
    IN  IF ~a.present \/ tx.to = "" THEN Ran(ctx, "contractChecker")
        ELSE IF BigIntThrows(tx.value) THEN Throw(ctx)
        ELSE IF ~hasCalldata /\ ~knownContract THEN Ran(ctx, "contractChecker")
        ELSE IF a.throws
        THEN Ran(Push(ctx, Reason("CONTRACT_ANALYSIS_UNAVAILABLE", "info",
                                  "contract")),
                 "contractChecker")
        ELSE
          LET found == ContractReasons(a, ctx.decoded)
          IN  Ran([ctx EXCEPT
                     !.reasons = @ \o found,
                     !.riskScores.transaction =
                        Min(100, @ + SumWeights(found, "contract", ContractWeight))],
                  "contractChecker")

(***************************************************************************)
(* Stage 6: behavioral comparator.  Reports the finding ctx.behavior:      *)
(* "none", or an anomaly with a severity and a behavioral score.           *)
(***************************************************************************)
NoBehavior == [severity |-> "none", score |-> 0]

behavioralComparator(ctx) ==
    LET b == ctx.behavior
    IN  IF b.severity = "none" THEN Ran(ctx, "behavioralComparator")
        ELSE Ran([ctx EXCEPT
                    !.reasons = Append(@, Reason("BEHAVIORAL_ANOMALY",
                                                 b.severity, "behavioral")),
                    !.riskScores.behavioral = Min(100, b.score)],
                 "behavioralComparator")

(***************************************************************************)
(* Stage 8: risk aggregator and tier resolution.                           *)
(***************************************************************************)
\* insertion into a sequence sorted by minValueAtRiskUsd descending, after
\* every element that does not sort later (Array.prototype.sort is stable)
RECURSIVE InsertTier(_, _)
InsertTier(t, sorted) ==
    IF sorted = <<>> THEN << t >>
    ELSE IF Head(sorted).triggers.minValueAtRiskUsd >= t.triggers.minValueAtRiskUsd
         THEN << Head(sorted) >> \o InsertTier(t, Tail(sorted))
         ELSE << t >> \o sorted

RECURSIVE SortTiers(_)
SortTiers(tiers) ==
    IF tiers = <<>> THEN <<>>
    ELSE InsertTier(tiers[Len(tiers)], SortTiers(SubSeq(tiers, 1, Len(tiers) - 1)))

TierMatches(tier, estimatedValueUsd, targetAddress, functionSignature) ==
    LET tr == tier.triggers
    IN  \/ /\ targetAddress # ""
           /\ \E a \in tr.targetAddresses :
                  ToLowerCase(a) = ToLowerCase(targetAddress)
        \/ /\ functionSignature # "undefined"
           /\ functionSignature \in tr.functionSignatures
        \/ /\ estimatedValueUsd >= tr.minValueAtRiskUsd
           /\ (tr.hasMax => estimatedValueUsd < tr.maxValueAtRiskUsd)

determineTier(pol, estimatedValueUsd, targetAddress, functionSignature) ==
    LET sortedTiers == SortTiers(pol.tiers)
        hits == {i \in 1..Len(sortedTiers) :
                    TierMatches(sortedTiers[i], estimatedValueUsd,
                                targetAddress, functionSignature)}
    IN  IF hits # {}
        THEN sortedTiers[CHOOSE i \in hits : \A j \in hits : i <= j]
        ELSE IF sortedTiers = <<>> THEN NoTier
        ELSE sortedTiers[Len(sortedTiers)]

\* the component scores a middleware registered with shield.use may leave
\* on the context, next to the multiples of 5 the core stages produce;
\* MissingScore stands for an absent component
MissingScore == 0 - 1
ContextScores == {MissingScore, 0, 1, 50, 90, 100}
TransactionScores == {MissingScore, 0, 6, 46, 85, 90, 100}
BehavioralScores == {MissingScore, 0, 3, 4, 7, 50, 95}

\* ctx.riskScores.x ?? 0
OrZero(score) == IF score = MissingScore THEN 0 ELSE score

\* the weighted sum rounded to the nearest integer, ties upwards
RoundedWeightedSum(c, t, b) == (40 * c + 35 * t + 25 * b + 50) \div 100

\* the triples, among the scores above and the multiples of 5, whose
\* weighted sum is an exact tie n + 0.5 that the doubles miss from below:
\* 0.35 is 0.34999999999999997..., so that e.g. 85 * 0.35 + 3 * 0.25 is
\* 30.499999999999996 and 90 * 0.35 is 31.499999999999996
RoundsBelowTie ==
    { <<0, 85, 3>>, <<0, 85, 7>>, <<0, 90, 0>>, <<1, 6, 0>>, <<1, 6, 4>>,
      <<1, 46, 0>>, <<1, 46, 4>> }

\* Math.round(c * 0.40 + t * 0.35 + b * 0.25) in IEEE-754 doubles.  On the
\* scores above the doubles give the exactly rounded value (ties upwards)
\* except on the triples of RoundsBelowTie, where Math.round sees a value
\* just below the tie.
Composite(c, t, b) ==
    IF <<c, t, b>> \in RoundsBelowTie THEN RoundedWeightedSum(c, t, b) - 1
    ELSE RoundedWeightedSum(c, t, b)

riskAggregator(ctx) ==
    LET sc == [context |-> OrZero(ctx.riskScores.context),
               transaction |-> OrZero(ctx.riskScores.transaction),
               behavioral |-> OrZero(ctx.riskScores.behavioral)]
        c0 == Max(0, Min(100, Composite(sc.context, sc.transaction, sc.behavioral)))
        c1 == IF sc.context >= 90 \/ sc.transaction >= 90 \/ sc.behavioral >= 90
              THEN Max(c0, 80) ELSE c0
        est == IF ctx.decoded.present THEN ctx.decoded.estimatedValueUsd ELSE 0
        tier == determineTier(ctx.policy, est, ctx.transaction.to,
                              IF ctx.decoded.present
                              THEN ctx.decoded.functionName ELSE "undefined")
    IN  Ran([ctx EXCEPT !.riskScores = [context |-> sc.context,
                                        transaction |-> sc.transaction,
                                        behavioral |-> sc.behavioral,
                                        composite |-> c1],
                        !.tier = tier],
            "riskAggregator")

(***************************************************************************)
(* Stage 9: policy engine.                                                 *)
(***************************************************************************)
\* (every tier decided as an audit tier is)
ModeDecisionAsAudit(enforcement, composite) ==
    [decision |-> "approve", requiredAction |-> "none", delaySeconds |-> 0]

\* (a fortress tier that ignores its time lock)
ModeDecisionWithoutTimeLock(enforcement, composite) ==
    IF enforcement.mode = "fortress"
    THEN [decision |-> "block", requiredAction |-> "human_approval",
          delaySeconds |-> 0]
    ELSE ModeDecisionAsAudit(enforcement, composite)

ModeDecision(enforcement, composite) ==
    CASE enforcement.mode = "audit" ->
           [decision |-> "approve", requiredAction |-> "none", delaySeconds |-> 0]
      [] enforcement.mode = "copilot" ->
           [decision |-> IF composite > 50 THEN "advise" ELSE "approve",
            requiredAction |-> "none", delaySeconds |-> 0]
      [] enforcement.mode = "guardian" ->
           IF composite >= enforcement.blockThreshold
           THEN [decision |-> "block", requiredAction |-> "human_approval",
                 delaySeconds |-> 0]
           ELSE IF 10 * composite >= 6 * enforcement.blockThreshold
           THEN [decision |-> "advise", requiredAction |-> "none",
                 delaySeconds |-> 0]
           ELSE [decision |-> "approve", requiredAction |-> "none",
                 delaySeconds |-> 0]
      [] enforcement.mode = "fortress" ->
           IF enforcement.timeLockSeconds # 0
           THEN [decision |-> "block", requiredAction |-> "delay",
                 delaySeconds |-> enforcement.timeLockSeconds]
           ELSE [decision |-> "block", requiredAction |-> "human_approval",
                 delaySeconds |-> 0]
      [] OTHER ->
           [decision |-> "approve", requiredAction |-> "none", delaySeconds |-> 0]

\* no tier matched: conservative defaults
NoTierDecision(composite) ==
    [decision |-> IF composite > 70 THEN "block"
                  ELSE IF composite > 30 THEN "advise" ELSE "approve",
     requiredAction |-> "none", delaySeconds |-> 0]

CriticalNoOverride(d, mode, reasons) == d

\* (the override applied in audit mode as well)
CriticalOverrideInAudit(d, mode, reasons) ==
    IF \E i \in 1..Len(reasons) : reasons[i].severity = "critical"
    THEN [d EXCEPT !.decision = "block", !.requiredAction = "human_approval"]
    ELSE d

\* any critical finding forces a block, except in audit mode
CriticalOverride(d, mode, reasons) ==
    IF (\E i \in 1..Len(reasons) : reasons[i].severity = "critical")
       /\ mode # "audit"
    THEN [d EXCEPT !.decision = "block", !.requiredAction = "human_approval"]
    ELSE d

\* (no override for context findings)
HighContextNoOverride(d, mode, reasons) == d

\* a high or critical context finding forces at least an advisory
HighContextOverride(d, mode, reasons) ==
    IF /\ \E i \in 1..Len(reasons) :
              /\ reasons[i].source = "context"
              /\ reasons[i].severity \in {"high", "critical"}
       /\ d.decision = "approve"
       /\ mode # "audit"
    THEN [d EXCEPT !.decision = "advise"]
    ELSE d

\* (a value equal to the limit treated as exceeding it)
ExceedsTxLimitInclusive(tx, limits) ==
    BigIntOf(tx.value) >= limits.maxTransactionValueWei

\* policy-engine.ts:101-104
ExceedsTxLimit(tx, limits) ==
    BigIntOf(tx.value) > limits.maxTransactionValueWei

policyEngine(ctx) ==
    LET composite == ctx.riskScores.composite
        tier == ctx.tier
        mode == tier.enforcement.mode
        d0 == IF tier = NoTier THEN NoTierDecision(composite)
              ELSE HighContextOverride(
                     CriticalOverride(ModeDecision(tier.enforcement, composite),
                                      mode, ctx.reasons),
                     mode, ctx.reasons)
    IN  IF BigIntThrows(ctx.transaction.value)
        THEN Throw([ctx EXCEPT !.uuidsUsed = @ + 1])
        ELSE
          LET over == ExceedsTxLimit(ctx.transaction, ctx.policy.limits)
              d1 == IF over
                    THEN [d0 EXCEPT !.decision = "block",
                                    !.requiredAction = "human_approval"]
                    ELSE d0
              reasons == IF over
                         THEN Append(ctx.reasons,
                                     Reason("EXCEEDS_TX_LIMIT", "high", "policy"))
                         ELSE ctx.reasons
              verdict ==
                [decision |-> d1.decision, reasons |-> reasons,
                 requiredAction |-> d1.requiredAction,
                 delaySeconds |-> d1.delaySeconds,
                 evaluationId |-> Uuid(ctx.uuid + ctx.uuidsUsed),
                 tierId |-> IF tier = NoTier THEN "unknown" ELSE tier.id,
                 tierMode |-> mode,
                 composite |-> composite]
          IN  Ran([ctx EXCEPT !.reasons = reasons, !.verdict = verdict,
                              !.uuidsUsed = @ + 1],
                  "policyEngine")

(***************************************************************************)
(* compose (pipeline.ts:69-88) over the shield's pipeline (shield.ts:104-  *)
(* 126).  A stage that throws rejects the whole chain.  The behaviours of  *)
(* operator-supplied middleware (shield.use) are the kinds                 *)
(*   "pass"       await next()                                             *)
(*   "noNext"     returns without calling next                             *)
(*   "throws"     throws before calling next                               *)
(*   "doubleNext" await next(); await next()                               *)
(*   "tamper"     await next(); ctx.metadata.verdict = <its own verdict>   *)
(* and, for the policy object the context shares with the shield,          *)
(*   "mutatePolicy"  ctx.policy.denylists.addresses.push(ctx.transaction   *)
(*                   .to); await next()                                    *)
(***************************************************************************)
MiddlewareKinds == {"pass", "noNext", "throws", "doubleNext", "tamper"}
MutatingKinds == {"mutatePolicy"}

TamperedVerdict ==
    [decision |-> "block", reasons |-> <<>>, requiredAction |-> "none",
     delaySeconds |-> 0, evaluationId |-> TamperedId, tierId |-> "tampered",
     tierMode |-> "none", composite |-> 100]

\* each core stage ends with `await next()`: the next stage runs unless
\* this one threw
Then(ctx, continued) == IF ctx.threw THEN ctx ELSE continued

MULTIPLE_NEXT == "next() called multiple times in the same middleware"

\* (no check of the dispatched index)
NextNeverCalledTwice(i, index) == FALSE

\* pipeline.ts:74
NextCalledTwice(i, index) == i <= index

\* the name under which the k-th registered middleware is recorded
CustomStage(k) == "custom" \o ToString(k)

\* dispatch(i) of compose for the stages after the behavioral comparator:
\* i = 5 + k, the k-th custom middleware being middlewares[5 + k], the risk
\* aggregator coming after the last of them and the policy engine after it.
\* The six stages before call next exactly once each, in order, which
\* leaves index below 6.
RECURSIVE dispatch(_, _, _)
dispatch(ctx, customs, k) ==
    IF ctx.threw THEN ctx
    ELSE IF NextCalledTwice(5 + k, ctx.index)
    THEN [Throw(ctx) EXCEPT !.error = MULTIPLE_NEXT]
    ELSE IF k > Len(customs)
    THEN LET aggregated == riskAggregator([ctx EXCEPT !.index = 5 + k])
         IN  Then(aggregated,
                  IF NextCalledTwice(6 + k, aggregated.index)
                  THEN [Throw(aggregated) EXCEPT !.error = MULTIPLE_NEXT]
                  ELSE policyEngine([aggregated EXCEPT !.index = 6 + k]))
    ELSE LET kind == customs[k]
             here == Ran([ctx EXCEPT !.index = 5 + k], CustomStage(k))
             down == dispatch(here, customs, k + 1)
             pushed == [here EXCEPT
                          !.policy.denylists.addresses =
                              @ \cup {ctx.transaction.to}]
         IN  CASE kind = "pass" -> down
               [] kind = "mutatePolicy" -> dispatch(pushed, customs, k + 1)
               [] kind = "noNext" -> here
               [] kind = "throws" -> Throw(here)
               [] kind = "doubleNext" -> dispatch(down, customs, k + 1)
               [] kind = "tamper" ->
                    IF down.threw THEN down
                    ELSE [down EXCEPT !.verdict = TamperedVerdict]
               [] OTHER -> down

CoreStages(ctx) ==
    LET c1 == contextAnalyzer(ctx)
        c2 == Then(c1, transactionDecoder(c1))
        c3 == Then(c2, valueAssessor(c2))
        c4 == Then(c3, addressChecker(c3))
        c5 == Then(c4, contractChecker(c4))
    IN  Then(c5, behavioralComparator(c5))

\* (the operator's middlewares left out of the composed array)
buildPipelineWithoutCustoms(ctx, customs) == dispatch(CoreStages(ctx), <<>>, 1)

buildPipeline(ctx, customs) == dispatch(CoreStages(ctx), customs, 1)

(***************************************************************************)
(* Policies.  DefaultPolicy follows the tier table of                      *)
(* docs/security/security-tiers.md; 0xd1 is on its denylist.               *)
(***************************************************************************)
RangeTier(id, mode, blockThreshold, minUsd, maxUsd, timeLock) ==
    [Tier(id, mode, blockThreshold, minUsd, {}, {}, timeLock)
       EXCEPT !.triggers.hasMax = TRUE, !.triggers.maxValueAtRiskUsd = maxUsd]

DefaultTiers ==
    << RangeTier("tier-0-audit", "audit", 100, 0, 1, 0),
       RangeTier("tier-1-copilot", "copilot", 100, 1, 100, 0),
       RangeTier("tier-2-guardian", "guardian", 70, 100, 10000, 0),
       Tier("tier-3-fortress", "fortress", 30, 10000, {}, {}, 900) >>

DefaultPolicy == Policy(DefaultTiers, {}, {"0xd1"}, 4, 3)

AuditOnlyTiers == << Tier("audit-only", "audit", 100, 0, {}, {}, 0) >>
GuardianOnlyTiers == << Tier("guardian-only", "guardian", 70, 0, {}, {}, 0) >>

\* Partial<SecurityPolicy> values passed to updatePolicy
PolicyOverrides ==
    { [tiers |-> <<>>],
      [tiers |-> AuditOnlyTiers],
      [tiers |-> GuardianOnlyTiers] }

\* mergePolicy (packages/core/src/policy.ts): the overrides replace the
\* fields they name; the result must keep at least one tier and at least
\* one blocking (guardian or fortress) tier
MergedPolicy(pol, overrides) ==
    [k \in DOMAIN pol |-> IF k \in DOMAIN overrides THEN overrides[k] ELSE pol[k]]

PolicyGuardrailError(pol) ==
    IF pol.tiers = <<>> THEN "at least one security tier"
    ELSE IF \A i \in 1..Len(pol.tiers) :
                pol.tiers[i].enforcement.mode \notin {"guardian", "fortress"}
         THEN "blocking tier"
    ELSE "null"

\* "threw" says whether mergePolicy raised; "policy" is its return value
mergePolicy(pol, overrides) ==
    LET merged == MergedPolicy(pol, overrides)
    IN  [threw |-> PolicyGuardrailError(merged) # "null", policy |-> merged]

(***************************************************************************)
(* Inputs of the shield specification.                                     *)
(***************************************************************************)
Tx(to, value, data) == [to |-> to, value |-> value, data |-> data, chainId |-> 1]

TxOk == Tx("0xA1", IntValue(1), NoData)
TxDenied == Tx("0xD1", IntValue(1), NoData)
TxBadTo == Tx("not-an-address", IntValue(1), NoData)
TxBadValue == Tx("0xa1", NanValue, NoData)
TxBadData == Tx("0xa1", IntValue(1), Data("nothex", "na"))

ShieldTxs == {TxOk, TxDenied, TxBadTo, TxBadValue, TxBadData}

ContextTxs == {TxOk}

ShieldConversations ==
    { Conversation({"IGNORE_INSTRUCTIONS"}, "high", "user", FALSE, TRUE) }

(***************************************************************************)
(* The shield (createShield, shield.ts:32-353).                            *)
(***************************************************************************)
\* freezeReason: '', the reason given to freeze(), or the auto-freeze text
Unfrozen == ""
ManualFreeze == "manual"
AutoFreeze == "auto"

NoTx == Tx("", UndefValue, NoData)

NoOverrides == [none |-> TRUE]

\* what the last completed call gave back to its caller
Outcome(op, kind, verdict, tx, startedFrozen, callbacks, log) ==
    [op |-> op, kind |-> kind, verdict |-> verdict, tx |-> tx,
     startedFrozen |-> startedFrozen, callbacks |-> callbacks, log |-> log,
     overrides |-> NoOverrides, limit |-> 0]

\* the step did not complete a call that returns a value
Void(callbacks) == Outcome("", "void", NoVerdict, NoTx, FALSE, callbacks, <<>>)
Raised(op, tx) == Outcome(op, "raised", NoVerdict, tx, FALSE, {}, <<>>)

IsBlocking(decision) == decision \in {"block", "freeze"}

AuditEntry(verdict, executed) ==
    [evaluationId |-> verdict.evaluationId, decision |-> verdict.decision,
     executed |-> executed]

\* recordAudit (shield.ts:142-163); `executed` is already defaulted
recordAudit(log, verdict, executed) ==
    LET pushed == Append(log, AuditEntry(verdict, executed))
    IN  IF Len(pushed) > AUDIT_LOG_MAX
        THEN SubSeq(pushed, Len(pushed) - AUDIT_LOG_MAX + 1, Len(pushed))
        ELSE pushed

\* (a frozen shield answering with an ordinary block)
FrozenVerdictAsBlock(uuid) ==
    [decision |-> "block",
     reasons |-> << Reason("SYSTEM_FROZEN", "critical", "policy") >>,
     requiredAction |-> "human_approval", delaySeconds |-> 0,
     evaluationId |-> Uuid(uuid), tierId |-> "frozen", tierMode |-> "none",
     composite |-> 100]

\* shield.ts:174-186
FrozenVerdict(uuid) ==
    [decision |-> "freeze",
     reasons |-> << Reason("SYSTEM_FROZEN", "critical", "policy") >>,
     requiredAction |-> "human_approval", delaySeconds |-> 0,
     evaluationId |-> Uuid(uuid), tierId |-> "frozen", tierMode |-> "none",
     composite |-> 100]

FallbackVerdict(uuid) ==
    [decision |-> "block",
     reasons |-> << Reason("PIPELINE_ERROR", "high", "policy") >>,
     requiredAction |-> "none", delaySeconds |-> 0,
     evaluationId |-> Uuid(uuid), tierId |-> "error", tierMode |-> "none",
     composite |-> 50]

\* unfreeze() not called yet
NeverUnfrozen == [unfrozen |-> FALSE, blocks |-> 0]

\* nothing approved yet
NoLedger ==
    [starts |-> <<>>, byStart |-> [d \in 0..MaxDays |-> 0],
     byReturn |-> [d \in 0..MaxDays |-> 0], sinceReset |-> 0]

ShieldInit ==
    /\ policy = DefaultPolicy
    /\ frozen = FALSE
    /\ freezeReason = Unfrozen
    /\ evaluationCount = 0
    /\ blockCount = 0
    /\ advisoryCount = 0
    /\ dailyVolumeWei = 0
    /\ dailyVolumeResetDate = 0
    /\ auditLog = <<>>
    /\ customMiddlewares = <<>>
    /\ today = 0
    /\ nextUuid = 1
    /\ inflight = <<>>
    /\ returned = Void({})
    /\ started = 0
    /\ settled = 0
    /\ escalationTracker = <<>>
    /\ evaluatedValues = <<>>
    /\ ledger = NoLedger
    /\ sinceUnfreeze = NeverUnfrozen

\* no pipeline run is being followed stage by stage
PipeIdle ==
    /\ pctx = createMiddlewareContext(NoTx, NoConversation, DefaultPolicy,
                                      NoBehavior, 1)
    /\ ppc = "idle"

\* one evaluate call suspended at `await pipeline(ctx, ...)`: the call, its
\* transaction, and what the pipeline left on the context; ctx.policy is
\* the policy object the context was created with (shield.ts:203-207)
Pending(op, tx, ctx) ==
    [op |-> op, tx |-> tx, verdict |-> ctx.verdict, threw |-> ctx.threw,
     startedFrozen |-> frozen, policy |-> ctx.policy]

RemoveAt(s, i) == SubSeq(s, 1, i - 1) \o SubSeq(s, i + 1, Len(s))

\* shield.ts:264-272: the entries of decision block or freeze among the
\* last AUTO_FREEZE_WINDOW audit entries
RecentEntries(log) == SliceLast(log, AUTO_FREEZE_WINDOW)
RecentBlocks(log) ==
    Cardinality({i \in 1..Len(RecentEntries(log)) :
                    IsBlocking(RecentEntries(log)[i].decision)})

\* evaluateInternal up to `await pipeline(...)` (shield.ts:168-209)
evaluateInternalWithin(op, tx, conv, maxEvals, maxInFlight) ==
    /\ started < maxEvals
    /\ started' = started + 1
    /\ IF frozen
       THEN LET v == FrozenVerdict(nextUuid)
            IN  /\ auditLog' = recordAudit(auditLog, v, FALSE)
                /\ nextUuid' = nextUuid + 1
                /\ settled' = settled + 1
                /\ returned' = Outcome(op, "verdict", v, tx, frozen, {}, <<>>)
                /\ UNCHANGED <<dailyVolumeWei, dailyVolumeResetDate,
                               evaluationCount, inflight, policy,
                               escalationTracker>>
       ELSE LET ctx == buildPipeline(
                         [createMiddlewareContext(tx, conv, policy, NoBehavior,
                                                  nextUuid)
                            EXCEPT !.tracker = escalationTracker, !.now = now],
                         customMiddlewares)
            IN  /\ Len(inflight) < maxInFlight
                \* checkDailyReset
                /\ IF today # dailyVolumeResetDate
                   THEN dailyVolumeWei' = 0 /\ dailyVolumeResetDate' = today
                   ELSE UNCHANGED <<dailyVolumeWei, dailyVolumeResetDate>>
                /\ evaluationCount' = evaluationCount + 1
                /\ nextUuid' = nextUuid + ctx.uuidsUsed
                /\ inflight' = Append(inflight, Pending(op, tx, ctx))
                /\ returned' = Void({})
                \* ctx.policy is the shield's own policy object
                \* (shield.ts:203-207): what a middleware did to it stays
                /\ policy' = ctx.policy
                /\ escalationTracker' = ctx.tracker
                /\ UNCHANGED <<auditLog, settled>>
    /\ UNCHANGED <<frozen, freezeReason, blockCount, advisoryCount,
                   customMiddlewares, today>>

\* at most MaxInFlight calls suspended at a time
evaluateInternal(op, tx, conv, maxEvals) ==
    evaluateInternalWithin(op, tx, conv, maxEvals, MaxInFlight)

\* shield.ts:291-293
evaluateCall(txs, maxEvals) ==
    /\ \E tx \in txs : evaluateInternal("evaluate", tx, NoConversation, maxEvals)
    /\ UNCHANGED <<pipeVars, signerVars, evaluatedValues, ledger, sinceUnfreeze>>

\* shield.ts:295-300
evaluateWithContextCall(txs, convs, maxEvals) ==
    /\ \E tx \in txs, conv \in convs :
          evaluateInternal("evaluateWithContext", tx, conv, maxEvals)
    /\ UNCHANGED <<pipeVars, signerVars, evaluatedValues, ledger, sinceUnfreeze>>

\* the pipeline's promise rejected: evaluate rejects with the same error
ResumeRejected(i) ==
    LET e == inflight[i]
    IN  /\ e.threw
        /\ returned' = [Raised(e.op, e.tx) EXCEPT !.startedFrozen = e.startedFrozen]
        /\ UNCHANGED <<policy, frozen, freezeReason, evaluationCount, blockCount,
                       advisoryCount, dailyVolumeWei, dailyVolumeResetDate,
                       auditLog, nextUuid>>

\* shield.ts:214-232
ResumeFallback(i) ==
    LET e == inflight[i]
        v == FallbackVerdict(nextUuid)
    IN  /\ ~e.threw
        /\ e.verdict = NoVerdict
        /\ auditLog' = recordAudit(auditLog, v, FALSE)
        /\ nextUuid' = nextUuid + 1
        /\ returned' = Outcome(e.op, "verdict", v, e.tx, e.startedFrozen, {}, <<>>)
        /\ UNCHANGED <<policy, frozen, freezeReason, evaluationCount, blockCount,
                       advisoryCount, dailyVolumeWei, dailyVolumeResetDate>>

\* (the promotion without a required action)
DailyVolumeBlockedOnly(verdict) ==
    [verdict EXCEPT !.decision = "block",
                    !.reasons = Append(@, Reason("DAILY_VOLUME_EXCEEDED",
                                                 "high", "policy"))]

\* (the reason added without changing the decision)
DailyVolumeNoted(verdict) ==
    [verdict EXCEPT !.reasons = Append(@, Reason("DAILY_VOLUME_EXCEEDED",
                                                 "high", "policy"))]

\* shield.ts:249-256
DailyVolumeExceeded(verdict) ==
    [verdict EXCEPT !.decision = "block",
                    !.requiredAction = "human_approval",
                    !.reasons = Append(@, Reason("DAILY_VOLUME_EXCEEDED",
                                                 "high", "policy"))]

\* shield.ts:234-286
ResumeVerdict(i) ==
    LET e == inflight[i]
        v0 == e.verdict
        approved == v0.decision = "approve"
        volume == IF approved THEN dailyVolumeWei + BigIntOf(e.tx.value)
                  ELSE dailyVolumeWei
        exceeded == approved /\ volume > policy.limits.maxDailyVolumeWei
        v == IF exceeded THEN DailyVolumeExceeded(v0) ELSE v0
        log == recordAudit(auditLog, v, v.decision = "approve")
        freezeNow == IsBlocking(v.decision) /\ RecentBlocks(log) >= AUTO_FREEZE_BLOCKS
        callbacks ==
            (IF IsBlocking(v0.decision) THEN {"onBlock"} ELSE {})
            \cup (IF v0.decision = "advise" THEN {"onAdvisory"} ELSE {})
            \cup (IF freezeNow THEN {"onFreeze", "onThreat"} ELSE {})
    IN  /\ ~e.threw
        /\ e.verdict # NoVerdict
        /\ blockCount' = blockCount + (IF IsBlocking(v0.decision) THEN 1 ELSE 0)
                                    + (IF exceeded THEN 1 ELSE 0)
        /\ advisoryCount' = advisoryCount + (IF v0.decision = "advise" THEN 1 ELSE 0)
        /\ dailyVolumeWei' = volume
        /\ auditLog' = log
        /\ IF freezeNow
           THEN /\ frozen' = TRUE
                /\ freezeReason' = AutoFreeze
           ELSE UNCHANGED <<frozen, freezeReason>>
        /\ returned' = Outcome(e.op, "verdict", v, e.tx, e.startedFrozen,
                                callbacks, <<>>)
        /\ UNCHANGED <<policy, evaluationCount, dailyVolumeResetDate, nextUuid>>

\* evaluateInternal from the resumption after `await pipeline(...)` to its
\* return (shield.ts:211-287)
ResumeAt(i) ==
    /\ \/ ResumeRejected(i)
       \/ ResumeFallback(i)
       \/ ResumeVerdict(i)
    /\ inflight' = RemoveAt(inflight, i)
    /\ settled' = settled + 1
    /\ UNCHANGED <<customMiddlewares, today, started>>

Resume ==
    /\ \E i \in 1..Len(inflight) : ResumeAt(i)
    /\ UNCHANGED <<pipeVars, signerVars, trackVars>>

\* (the assignment made even though mergePolicy raised)
updatePolicyAssignsAnyway(overrides) == mergePolicy(policy, overrides).policy

\* shield.ts:317-319: the assignment happens only if mergePolicy returned
updatePolicyAssigns(overrides) ==
    LET m == mergePolicy(policy, overrides)
    IN  IF m.threw THEN policy ELSE m.policy

updatePolicyCall(overridesSet) ==
    /\ \E overrides \in overridesSet :
          /\ policy' = updatePolicyAssigns(overrides)
          /\ returned' =
                [Outcome("updatePolicy",
                         IF mergePolicy(policy, overrides).threw
                         THEN "raised" ELSE "void",
                         NoVerdict, NoTx, FALSE, {}, <<>>)
                   EXCEPT !.overrides = overrides]
    /\ UNCHANGED <<frozen, freezeReason, evaluationCount, blockCount,
                   advisoryCount, dailyVolumeWei, dailyVolumeResetDate, auditLog,
                   customMiddlewares, today, nextUuid, inflight, started, settled>>
    /\ UNCHANGED <<pipeVars, signerVars, trackVars>>

\* shield.ts:328-330, for an operator registering at most maxCustom
\* middlewares
useWithin(kinds, maxCustom) ==
    /\ Len(customMiddlewares) < maxCustom
    /\ \E kind \in kinds :
          customMiddlewares' = Append(customMiddlewares, kind)
    /\ returned' = Void({})
    /\ UNCHANGED <<policy, frozen, freezeReason, evaluationCount, blockCount,
                   advisoryCount, dailyVolumeWei, dailyVolumeResetDate, auditLog,
                   today, nextUuid, inflight, started, settled>>
    /\ UNCHANGED <<pipeVars, signerVars, trackVars>>

useCall(kinds) == useWithin(kinds, MaxCustom)

\* shield.ts:321-326; limit 0 stands for an absent (or zero) limit
getAuditLogResult(limit) ==
    IF limit # 0 THEN SliceLast(auditLog, limit) ELSE auditLog

\* shield.ts:321-326, for a caller passing one of `limits` (0 also stands
\* for no argument)
getAuditLogCall(limits) ==
    /\ \E limit \in limits :
          returned' = [Outcome("getAuditLog", "log", NoVerdict, NoTx, FALSE, {},
                               getAuditLogResult(limit))
                         EXCEPT !.limit = limit]
    /\ UNCHANGED <<policy, frozen, freezeReason, evaluationCount, blockCount,
                   advisoryCount, dailyVolumeWei, dailyVolumeResetDate, auditLog,
                   customMiddlewares, today, nextUuid, inflight, started, settled>>
    /\ UNCHANGED <<pipeVars, signerVars, trackVars>>

getAuditLog == getAuditLogCall({0, 1})

\* shield.ts:336-344
freeze ==
    /\ frozen' = TRUE
    /\ freezeReason' = ManualFreeze
    /\ returned' = Void({"onFreeze"})
    /\ UNCHANGED <<policy, evaluationCount, blockCount, advisoryCount,
                   dailyVolumeWei, dailyVolumeResetDate, auditLog,
                   customMiddlewares, today, nextUuid, inflight, started, settled>>
    /\ UNCHANGED <<pipeVars, signerVars, trackVars>>

\* shield.ts:346-349
unfreezeCall ==
    /\ frozen' = FALSE
    /\ freezeReason' = Unfrozen
    /\ returned' = Void({})
    /\ UNCHANGED <<policy, evaluationCount, blockCount, advisoryCount,
                   dailyVolumeWei, dailyVolumeResetDate, auditLog,
                   customMiddlewares, today, nextUuid, inflight, started, settled>>
    /\ UNCHANGED <<pipeVars, signerVars>>

unfreeze ==
    /\ unfreezeCall
    /\ UNCHANGED trackVars

(***************************************************************************)
(* The signer (packages/signer/src/index.ts).  Strings are sequences of    *)
(* characters; a hex digit is its value 0..15 and NonHexChar stands for    *)
(* any character outside [0-9a-fA-F].  HMAC-SHA256 is an ideal function:   *)
(* its digest names the key and the bytes it was fed, and is always        *)
(* MAC_HEX_LENGTH hex characters long.                                     *)
(***************************************************************************)
NonHexChar == 16

RECURSIVE ToDigits(_, _)
ToDigits(n, base) ==
    IF n < base THEN <<n>> ELSE Append(ToDigits(n \div base, base), n % base)

DigitChar(d) == << "0", "1", "2", "3", "4", "5", "6", "7", "8", "9" >>[d + 1]

\* Number.prototype.toString(): the decimal digits, as characters
toString10(n) == [i \in 1..Len(ToDigits(n, 10)) |-> DigitChar(ToDigits(n, 10)[i])]

\* Number.prototype.toString(16)
toString16(n) == ToDigits(n, 16)

\* String.prototype.padStart(len, '0')
padStart(s, len) ==
    IF Len(s) >= len THEN s
    ELSE [i \in 1..(len - Len(s)) |-> 0] \o s

\* parseInt(s, 16) of a string of hex digits
RECURSIVE parseInt16(_)
parseInt16(s) ==
    IF s = <<>> THEN 0
    ELSE 16 * parseInt16(SubSeq(s, 1, Len(s) - 1)) + s[Len(s)]

createHmac(secret, bytes) == [key |-> secret, bytes |-> bytes]

\* (the hash left out of the authenticated bytes)
HmacInputWithoutHash(hash, ts) == toString10(ts)

\* hmac.update(transactionHash); hmac.update(ts.toString())
HmacInput(hash, ts) == hash \o toString10(ts)

\* index.ts:100-113
generateApprovalToken(transactionHash, sharedSecret, ts) ==
    [mac |-> createHmac(sharedSecret, HmacInput(transactionHash, ts)),
     tsHex |-> padStart(toString16(ts), TS_HEX_LENGTH)]

\* the token string is mac + tsHex
TokenLength(token) == MAC_HEX_LENGTH + Len(token.tsHex)

\* /^[0-9a-f]{80}$/i
IsEightyHex(token) ==
    /\ TokenLength(token) = TOKEN_LENGTH
    /\ \A i \in 1..Len(token.tsHex) : token.tsHex[i] \in 0..15

\* (tokens from the future accepted)
TokenAgeOkIgnoringFuture(age) == ~(age > APPROVAL_TOKEN_MAX_AGE_MS)

\* index.ts:137, negated: the token is neither expired nor from the future
TokenAgeOk(age) == ~(age > APPROVAL_TOKEN_MAX_AGE_MS \/ age < 0)

\* index.ts:123-154 evaluated when Date.now() is `at`; `hmacs` counts the
\* HMAC computations the call made
verifyApprovalToken(token, transactionHash, sharedSecret, at) ==
    IF ~IsEightyHex(token) THEN [ok |-> FALSE, hmacs |-> 0]
    ELSE
      LET timestamp == parseInt16(token.tsHex)
          age == at - timestamp
      IN  IF ~TokenAgeOk(age) THEN [ok |-> FALSE, hmacs |-> 0]
          ELSE [ok |-> token.mac
                         = createHmac(sharedSecret,
                                      HmacInput(transactionHash, timestamp)),
                hmacs |-> 1]

\* the secret the server is configured with, and one it is not
ServerSecret == "S"
Secrets == {ServerSecret, "X"}

Hashes == { <<"a">>, <<"a", "1">> }

NoToken == [mac |-> createHmac("", <<>>), tsHex |-> <<>>]
NoMint == [token |-> NoToken, hash |-> <<>>, secret |-> "", ts |-> 0]

\* strings an attacker derives from a token it has seen: one character
\* short, one character long, one character outside hex, and the same MAC
\* under a fresh timestamp
Truncated(token) == [token EXCEPT !.tsHex = Tail(@)]
Extended(token) == [token EXCEPT !.tsHex = Append(@, 0)]
NonHex(token) == [token EXCEPT !.tsHex[1] = NonHexChar]
Restamped(token, ts) ==
    [token EXCEPT !.tsHex = padStart(toString16(ts), TS_HEX_LENGTH)]

\* the tokens a caller can present, each with the generation it came from
Presentable ==
    { [token |-> m.token, from |-> m, forged |-> FALSE] : m \in minted }
    \cup UNION { { [token |-> f, from |-> m, forged |-> TRUE] :
                    f \in { Truncated(m.token), Extended(m.token),
                            NonHex(m.token), Restamped(m.token, now) }
                          \ {m.token} } :
                  m \in minted }

SignerRequest(type, hash, token, serializedTx) ==
    [type |-> type, transactionHash |-> hash, message |-> hash,
     approvalToken |-> token, serializedTx |-> serializedTx]

NoRequest == SignerRequest("none", <<>>, NoToken, <<>>)

SignerResponse(success, data, error) ==
    [success |-> success, data |-> data, error |-> error]

Call(fn, arg, secret, ok) == [fn |-> fn, arg |-> arg, secret |-> secret, ok |-> ok]

\* the string a sign request's token has to approve
ApprovedString(request) ==
    IF request.type = "sign_transaction" THEN request.transactionHash
    ELSE request.message

\* what signFn is handed
SignedData(request) ==
    IF request.type = "sign_transaction" THEN request.serializedTx
    ELSE request.message

\* (signing without looking at the verification result)
handleRequestUnverified(request, at, signThrows) ==
    IF request.type \in {"sign_transaction", "sign_message"}
    THEN [response |-> SignerResponse(TRUE, "signature", "none"),
          calls |-> << Call("signFn", SignedData(request), "", TRUE) >>]
    ELSE [response |-> SignerResponse(FALSE, "none", "Unknown request type"),
          calls |-> <<>>]

\* SignerServer.handleRequest (index.ts:323-394) when Date.now() is `at`:
\* the response, and the calls to verifyApprovalToken and signFn it made
handleRequest(request, at, signThrows) ==
    CASE request.type = "health_check" ->
           [response |-> SignerResponse(TRUE, "healthy", "none"), calls |-> <<>>]
      [] request.type = "get_address" ->
           [response |-> SignerResponse(TRUE, "address", "none"), calls |-> <<>>]
      [] request.type \in {"sign_transaction", "sign_message"} ->
           LET v == verifyApprovalToken(request.approvalToken,
                                        ApprovedString(request), ServerSecret, at)
               verified == Call("verifyApprovalToken", ApprovedString(request),
                                ServerSecret, v.ok)
           IN  IF ~v.ok
               THEN [response |-> SignerResponse(FALSE, "none",
                                                 "Invalid approval token"),
                     calls |-> << verified >>]
               ELSE [response |-> IF signThrows
                                  THEN SignerResponse(FALSE, "none", "Signing failed")
                                  ELSE SignerResponse(TRUE, "signature", "none"),
                     calls |-> << verified,
                                  Call("signFn", SignedData(request), "", ~signThrows) >>]
      [] OTHER ->
           [response |-> SignerResponse(FALSE, "none", "Unknown request type"),
            calls |-> <<>>]

\* the last call made to the signer package
LastCall(op, presented, hash, secret, at, result, request, handled) ==
    [op |-> op, token |-> presented.token, from |-> presented.from,
     forged |-> presented.forged, hash |-> hash, secret |-> secret, at |-> at,
     ok |-> result.ok, hmacs |-> result.hmacs, request |-> request,
     response |-> handled.response, calls |-> handled.calls]

NothingPresented == [token |-> NoToken, from |-> NoMint, forged |-> FALSE]
NoResult == [ok |-> FALSE, hmacs |-> 0]
NothingHandled == [response |-> SignerResponse(FALSE, "none", "none"), calls |-> <<>>]

\* no connection accepted, no request made
NoConnection ==
    [requests |-> <<>>, sent |-> 0, incoming |-> <<>>, buffer |-> 0,
     suspended |-> {}, written |-> <<>>]

NoClientCall ==
    [phase |-> "idle", config |-> UndefValue, timeout |-> 0, elapsed |-> 0,
     timer |-> "none",
     writes |-> 0, buffer |-> 0, resolved |-> FALSE,
     settled |-> 0, outcome |-> <<"pending">>]

SignerIdle ==
    /\ now = 0
    /\ ticks = 0
    /\ minted = {}
    /\ signatures = <<>>
    /\ lastCall = LastCall("none", NothingPresented, <<>>, "", 0, NoResult,
                           NoRequest, NothingHandled)
    /\ conn = NoConnection
    /\ client = NoClientCall

\* Date.now() moves on, by a millisecond or by just under the token lifetime
Tick ==
    /\ ticks < MaxTicks
    /\ ticks' = ticks + 1
    /\ \E d \in {1, APPROVAL_TOKEN_MAX_AGE_MS - 1} : now' = now + d
    /\ UNCHANGED <<minted, lastCall, signatures, ipcVars>>
    /\ UNCHANGED <<shieldVars, pipeVars>>

\* a holder of some secret generates a token, stamped Date.now() or with an
\* explicit timestamp a millisecond ahead of the verifier's clock; it takes
\* the place of the token generated before
Generate ==
    /\ \E h \in Hashes, S \in Secrets, ts \in {now, now + 1} :
          LET m == [token |-> generateApprovalToken(h, S, ts), hash |-> h,
                    secret |-> S, ts |-> ts]
          IN  /\ minted' = {m}
              /\ lastCall' = LastCall("generateApprovalToken",
                                      [token |-> m.token, from |-> m, forged |-> FALSE],
                                      h, S, now, NoResult, NoRequest, NothingHandled)
    /\ UNCHANGED <<now, ticks, signatures, ipcVars>>
    /\ UNCHANGED <<shieldVars, pipeVars>>

\* verifyApprovalToken called directly on a presentable token
Verify ==
    /\ \E p \in Presentable, h \in Hashes, S \in Secrets :
          lastCall' = LastCall("verifyApprovalToken", p, h, S, now,
                               verifyApprovalToken(p.token, h, S, now),
                               NoRequest, NothingHandled)
    /\ UNCHANGED <<now, ticks, minted, signatures, ipcVars>>
    /\ UNCHANGED <<shieldVars, pipeVars>>

SignerRequests ==
    { SignerRequest(type, <<>>, NoToken, <<>>) :
        type \in {"health_check", "get_address", "unknown"} }
    \cup { SignerRequest(type, h, p.token, <<"t", "x">>) :
             type \in {"sign_transaction", "sign_message"}, h \in Hashes,
             p \in Presentable }

\* one request line read from the socket and answered (index.ts:296-321)
HandleRequest ==
    /\ \E request \in SignerRequests, signThrows \in BOOLEAN :
          lastCall' = LastCall("handleRequest", NothingPresented, <<>>, "", now,
                               NoResult, request,
                               handleRequest(request, now, signThrows))
    /\ UNCHANGED <<now, ticks, minted, signatures, ipcVars>>
    /\ UNCHANGED <<shieldVars, pipeVars>>

(***************************************************************************)
(* Specifications.                                                         *)
(***************************************************************************)
Init == ShieldInit /\ PipeIdle /\ SignerIdle

evaluate == evaluateCall(ShieldTxs, MaxEvals)
evaluateWithContext ==
    evaluateWithContextCall(ContextTxs, ShieldConversations, MaxEvals)
updatePolicy == updatePolicyCall(PolicyOverrides)
use == useCall(MiddlewareKinds)

Next ==
    \/ evaluate
    \/ evaluateWithContext
    \/ Resume
    \/ updatePolicy
    \/ use
    \/ getAuditLog
    \/ freeze
    \/ unfreeze

Spec == Init /\ [][Next]_vars

(***************************************************************************)
(* The shield under sustained load: long runs of evaluations of an         *)
(* approved and a blocked transaction, one evaluation in flight at a time  *)
(* from the caller's side being the bound MaxInFlight.                     *)
(***************************************************************************)
FreezeTxs == {TxOk, TxDenied}

evaluateLoad == evaluateCall(FreezeTxs, MaxFreezeEvals)
evaluateWithContextLoad ==
    evaluateWithContextCall(ContextTxs, ShieldConversations, MaxFreezeEvals)
updatePolicyLoad == updatePolicyCall({[tiers |-> <<>>], [tiers |-> GuardianOnlyTiers]})
useLoad == useCall({"noNext"})

NextFreeze ==
    \/ evaluateLoad
    \/ evaluateWithContextLoad
    \/ Resume
    \/ updatePolicyLoad
    \/ useLoad
    \/ getAuditLog
    \/ freeze
    \/ unfreeze

SpecFreeze == Init /\ [][NextFreeze]_vars

(***************************************************************************)
(* The signer server: its clock, the token in circulation, and the         *)
(* requests it answers.                                                    *)
(***************************************************************************)
NextSigner ==
    \/ Tick
    \/ Generate
    \/ HandleRequest

SpecSigner == Init /\ [][NextSigner]_vars

(***************************************************************************)
(* The approval token functions: generateApprovalToken and                 *)
(* verifyApprovalToken called at any time, with any hash and secret.       *)
(***************************************************************************)
NextToken ==
    \/ Tick
    \/ Generate
    \/ Verify

SpecToken == Init /\ [][NextToken]_vars

(***************************************************************************)
(* One run of the core pipeline followed stage by stage (shield.ts:104-    *)
(* 126 without operator middleware), over every combination of the inputs  *)
(* below.                                                                  *)
(***************************************************************************)
TierModes == {"audit", "copilot", "guardian", "fortress"}

SingleTierPolicy(mode) ==
    Policy(<< Tier("only-" \o mode, mode, 70, 0, {}, {}, 0) >>, {}, {"0xd1"}, 4, 3)

PipelinePolicies == {DefaultPolicy} \cup {SingleTierPolicy(m) : m \in TierModes}

PipelineTxs ==
    { Tx(to, IntValue(v), d) :
        to \in {"0xA1", "0xD1"}, v \in {0, 1, 4, 5},
        d \in {NoData, Data("approve", "inf"), Data("multicall", "na")} }

PipelineConversations ==
    { NoConversation,
      Conversation({}, "high", "user", FALSE, TRUE),
      Conversation({"IGNORE_INSTRUCTIONS"}, "high", "user", FALSE, TRUE),
      Conversation({"ROLE_OVERRIDE"}, "high", "user", FALSE, TRUE),
      Conversation({}, "untrusted", "unknown", TRUE, FALSE) }

PipelineBehaviors ==
    { NoBehavior, [severity |-> "high", score |-> 95],
      [severity |-> "high", score |-> 85],
      [severity |-> "critical", score |-> 40] }

\* a contract with SELFDESTRUCT; an unverified one with DELEGATECALL; an
\* unverified risky proxy with DELEGATECALL
PipelineAnalyses ==
    { NoAnalysis,
      ContractAnalysis(TRUE, FALSE, TRUE, FALSE, "safe", FALSE),
      ContractAnalysis(FALSE, TRUE, FALSE, FALSE, "safe", FALSE),
      ContractAnalysis(FALSE, TRUE, FALSE, TRUE, "high", TRUE) }

InitPipeline ==
    /\ ShieldInit
    /\ SignerIdle
    /\ pctx \in { [createMiddlewareContext(tx, conv, pol, behavior, 1)
                      EXCEPT !.analysis = analysis] :
                    tx \in PipelineTxs, conv \in PipelineConversations,
                    pol \in PipelinePolicies, behavior \in PipelineBehaviors,
                    analysis \in PipelineAnalyses }
    /\ ppc = "contextAnalyzer"

\* the stage named `stage` runs and awaits next(), which is `after`
RunStage(stage, result, after) ==
    /\ ppc = stage
    /\ pctx' = result
    /\ ppc' = IF result.threw THEN "rejected" ELSE after
    /\ UNCHANGED <<shieldVars, signerVars>>

RunContextAnalyzer == RunStage("contextAnalyzer", contextAnalyzer(pctx), "transactionDecoder")
RunTransactionDecoder == RunStage("transactionDecoder", transactionDecoder(pctx), "valueAssessor")
RunValueAssessor == RunStage("valueAssessor", valueAssessor(pctx), "addressChecker")
RunAddressChecker == RunStage("addressChecker", addressChecker(pctx), "contractChecker")
RunContractChecker == RunStage("contractChecker", contractChecker(pctx), "behavioralComparator")
RunBehavioralComparator == RunStage("behavioralComparator", behavioralComparator(pctx), "riskAggregator")
RunRiskAggregator == RunStage("riskAggregator", riskAggregator(pctx), "policyEngine")
RunPolicyEngine == RunStage("policyEngine", policyEngine(pctx), "resolved")

NextPipeline ==
    \/ RunContextAnalyzer
    \/ RunTransactionDecoder
    \/ RunValueAssessor
    \/ RunAddressChecker
    \/ RunContractChecker
    \/ RunBehavioralComparator
    \/ RunRiskAggregator
    \/ RunPolicyEngine

SpecPipeline == InitPipeline /\ [][NextPipeline]_vars

(***************************************************************************)
(* The shield with operator middleware of every kind, the policy-mutating  *)
(* one included, evaluating a clean and a denylisted target.               *)
(***************************************************************************)
CustomTxs == {TxOk, TxDenied}

evaluateCustom == evaluateCall(CustomTxs, MaxEvals)
useCustom == useCall(MiddlewareKinds \cup MutatingKinds)

NextCustom ==
    \/ evaluateCustom
    \/ Resume
    \/ useCustom

SpecCustom == Init /\ [][NextCustom]_vars

(***************************************************************************)
(* The shield's limits: evaluations of a zero-value transfer to a          *)
(* denylisted address, of a transfer of 2 ETH and of one of 5 ETH (above   *)
(* maxTransactionValueWei), across a change of day, under the default      *)
(* tiers or under tiers that put every transaction in an audit tier.       *)
(***************************************************************************)
TxDeniedZero == Tx("0xD1", IntValue(0), NoData)
TxTwo == Tx("0xa1", IntValue(2), NoData)
TxFive == Tx("0xA1", IntValue(5), NoData)

LimitTxs == {TxDeniedZero, TxTwo, TxFive}

\* the guardian tier satisfies updatePolicy's guardrail and matches nothing
AuditFirstTiers ==
    << Tier("audit-all", "audit", 100, 0, {}, {}, 0),
       Tier("guardian-never", "guardian", 70, 1000000, {}, {}, 0) >>

evaluateLimits == evaluateCall(LimitTxs, MaxLimitEvals)
updatePolicyLimits == updatePolicyCall({[tiers |-> AuditFirstTiers]})

\* midnight passes: new Date().toDateString() changes (shield.ts:132)
NextDay ==
    /\ today < MaxDays
    /\ today' = today + 1
    /\ returned' = Void({})
    /\ UNCHANGED <<policy, frozen, freezeReason, evaluationCount, blockCount,
                   advisoryCount, dailyVolumeWei, dailyVolumeResetDate, auditLog,
                   customMiddlewares, nextUuid, inflight, started, settled>>
    /\ UNCHANGED <<pipeVars, signerVars, trackVars>>

NextLimits ==
    \/ evaluateLimits
    \/ Resume
    \/ updatePolicyLimits
    \/ NextDay

SpecLimits == Init /\ [][NextLimits]_vars

(***************************************************************************)
(* compose over the shield's pipeline: the operator registers up to        *)
(* MaxComposeCustom middlewares of any kind, then the composed pipeline    *)
(* runs once on a fresh context.                                           *)
(***************************************************************************)
ComposeTxs == {TxOk, TxDenied, TxBadValue}

InitCompose ==
    /\ ShieldInit
    /\ SignerIdle
    /\ pctx \in { createMiddlewareContext(tx, NoConversation, DefaultPolicy,
                                            NoBehavior, 1) : tx \in ComposeTxs }
    /\ ppc = "composed"

useCompose ==
    /\ ppc = "composed"
    /\ useWithin(MiddlewareKinds \cup MutatingKinds, MaxComposeCustom)

\* await pipeline(ctx, async () => {}) (shield.ts:202-209)
RunPipeline ==
    /\ ppc = "composed"
    /\ pctx' = buildPipeline(pctx, customMiddlewares)
    /\ ppc' = IF pctx'.threw THEN "rejected" ELSE "resolved"
    /\ UNCHANGED <<shieldVars, signerVars>>

NextCompose ==
    \/ useCompose
    \/ RunPipeline

SpecCompose == InitCompose /\ [][NextCompose]_vars

(***************************************************************************)
(* Evaluations with conversation context over time: transfers of 1, 4 and  *)
(* 5 ETH, 5 or 31 minutes apart.                                           *)
(***************************************************************************)
TxFour == Tx("0xA1", IntValue(4), NoData)

EscalationTxs == {TxOk, TxFour, TxFive}

BenignConversation == Conversation({}, "high", "user", FALSE, TRUE)

\* the value assessor's estimate for tx
EstimatedValueUsd(tx) ==
    valueAssessor(transactionDecoder(
        createMiddlewareContext(tx, NoConversation, policy, NoBehavior, 0)
    )).estimatedValueUsd

\* vi.advanceTimersByTime(5 * 60 * 1000), or by 31 * 60 * 1000
AdvanceTimers ==
    /\ ticks < MaxTicks
    /\ ticks' = ticks + 1
    /\ \E minutes \in {5, 31} : now' = now + minutes * 60 * 1000
    /\ UNCHANGED <<minted, lastCall, signatures, ipcVars>>
    /\ UNCHANGED <<shieldVars, pipeVars>>

\* evaluateWithContext (shield.ts:295-300), its value and time noted in
\* evaluatedValues when the pipeline runs
evaluateWithContextTimed ==
    /\ \E tx \in EscalationTxs :
          /\ evaluateInternal("evaluateWithContext", tx, BenignConversation,
                              MaxEvals)
          /\ evaluatedValues' =
                IF frozen THEN evaluatedValues
                ELSE Append(evaluatedValues,
                            [valueUsd |-> EstimatedValueUsd(tx),
                             timestamp |-> now])
    /\ UNCHANGED <<pipeVars, signerVars, ledger, sinceUnfreeze>>

NextEscalation ==
    \/ evaluateWithContextTimed
    \/ Resume
    \/ AdvanceTimers

SpecEscalation == Init /\ [][NextEscalation]_vars

(***************************************************************************)
(* Properties.                                                             *)
(***************************************************************************)
EvaluateOps == {"evaluate", "evaluateWithContext"}

IsCritical(r) == r.severity = "critical"

\* C1: once the shield is frozen, an evaluate/evaluateWithContext call that
\* starts while it is frozen returns a verdict of decision 'freeze', and no
\* step other than unfreeze() takes isFrozen() from true to false.
C1FrozenUntilUnfreeze ==
    [][ /\ (frozen /\ ~frozen') => unfreeze
        /\ (returned'.op \in EvaluateOps /\ returned'.startedFrozen)
             => /\ returned'.kind = "verdict"
                /\ returned'.verdict.decision = "freeze" ]_vars

\* an evaluation answered 'freeze' on a shield that froze itself
C1Witness ==
    /\ frozen
    /\ freezeReason = AutoFreeze
    /\ returned.op \in EvaluateOps
    /\ returned.startedFrozen
    /\ returned.verdict.decision = "freeze"

\* C2: when an evaluation on an unfrozen shield returns a 'block' verdict
\* and at least 5 of the 10 most recent audit entries (its own included)
\* are 'block' or 'freeze', the shield is frozen when the call returns and
\* onFreeze and onThreat have been invoked (stated for a shield that
\* freeze(reason) has not frozen in the meantime).
C2AutoFreezeOnBlock ==
    ( /\ returned.op \in EvaluateOps
      /\ returned.kind = "verdict"
      /\ ~returned.startedFrozen
      /\ freezeReason # ManualFreeze
      /\ returned.verdict.decision = "block"
      /\ RecentBlocks(auditLog) >= 5 )
    => /\ frozen
       /\ {"onFreeze", "onThreat"} \subseteq returned.callbacks

IsSignCall(c) == c.fn = "signFn"
IsVerifyCall(c) == c.fn = "verifyApprovalToken"

\* C4: the server calls signFn at most once per request, only for a
\* sign_transaction (sign_message) request and only after a call of
\* verifyApprovalToken on that request's transactionHash (message) under the
\* configured secret returned true; a request whose token does not verify is
\* answered success=false without a signature after a single verification;
\* health_check and get_address call neither.
C4SignsOnlyVerified ==
    lastCall.op = "handleRequest" =>
      LET r == lastCall.request
          calls == lastCall.calls
          wanted == IF r.type = "sign_transaction" THEN r.transactionHash
                    ELSE r.message
      IN  /\ \A i \in 1..Len(calls) :
                IsSignCall(calls[i]) =>
                  /\ r.type \in {"sign_transaction", "sign_message"}
                  /\ \E j \in 1..(i - 1) :
                        calls[j] = Call("verifyApprovalToken", wanted,
                                        ServerSecret, TRUE)
          /\ Cardinality({i \in 1..Len(calls) : IsSignCall(calls[i])}) <= 1
          /\ Cardinality({i \in 1..Len(calls) : IsVerifyCall(calls[i])}) <= 1
          /\ ( /\ r.type \in {"sign_transaction", "sign_message"}
               /\ \A i \in 1..Len(calls) : ~IsSignCall(calls[i]) )
             => /\ ~lastCall.response.success
                /\ lastCall.response.data = "none"
          /\ r.type \in {"health_check", "get_address"} => calls = <<>>

\* a sign_transaction request signed after its token verified
C4Witness ==
    /\ lastCall.op = "handleRequest"
    /\ lastCall.request.type = "sign_transaction"
    /\ Len(lastCall.calls) = 2
    /\ lastCall.calls[1].ok
    /\ IsSignCall(lastCall.calls[2])
    /\ lastCall.response.success

\* C5: a generated token presented with another hash or another secret than
\* the ones it was generated with does not verify, at any time; a token
\* string that is not exactly 80 hex characters does not verify and no HMAC
\* is computed for it.
C5TokenBoundToHashAndSecret ==
    lastCall.op = "verifyApprovalToken" =>
      /\ ( /\ ~lastCall.forged
           /\ (lastCall.hash # lastCall.from.hash
               \/ lastCall.secret # lastCall.from.secret) )
         => ~lastCall.ok
      /\ ( \/ MAC_HEX_LENGTH + Len(lastCall.token.tsHex) # 80
           \/ \E i \in 1..Len(lastCall.token.tsHex) :
                 lastCall.token.tsHex[i] \notin 0..15 )
         => (~lastCall.ok /\ lastCall.hmacs = 0)

\* a fresh token refused for another hash after the MAC comparison
C5Witness ==
    /\ lastCall.op = "verifyApprovalToken"
    /\ ~lastCall.forged
    /\ lastCall.hash # lastCall.from.hash
    /\ lastCall.secret = lastCall.from.secret
    /\ lastCall.at - lastCall.from.ts \in 0..1
    /\ lastCall.hmacs = 1
    /\ ~lastCall.ok

\* the verification of a token against the hash and secret it was made with
IsRoundTrip ==
    /\ lastCall.op = "verifyApprovalToken"
    /\ ~lastCall.forged
    /\ lastCall.hash = lastCall.from.hash
    /\ lastCall.secret = lastCall.from.secret

\* C6 (as stated): verify(generate(h, S, t), h, S) at time now is true iff
\* 0 <= now - t < 300000.
C6RoundTripStrict ==
    IsRoundTrip =>
      (lastCall.ok <=> ( /\ 0 <= lastCall.at - lastCall.from.ts
                         /\ lastCall.at - lastCall.from.ts < 300000 ))

\* C6 (amended): verify(generate(h, S, t), h, S) at time now is true iff
\* 0 <= now - t <= 300000: a token whose age is exactly the 5-minute limit
\* still verifies, an older one and one from the future do not.
C6RoundTripInclusive ==
    IsRoundTrip =>
      (lastCall.ok <=> ( /\ 0 <= lastCall.at - lastCall.from.ts
                         /\ lastCall.at - lastCall.from.ts <= 300000 ))

\* a token verified when its age is exactly 300000 ms
C6Witness ==
    /\ IsRoundTrip
    /\ lastCall.at - lastCall.from.ts = 300000
    /\ lastCall.ok

\* C7: every evaluate/evaluateWithContext call that has completed returned
\* a verdict and appended one audit entry carrying that verdict's id and
\* decision; no two audit entries share an evaluationId.
C7OneVerdictOneEntry ==
    /\ Len(auditLog) = settled
    /\ returned.op \in EvaluateOps =>
         /\ returned.kind = "verdict"
         /\ auditLog # <<>>
         /\ auditLog[Len(auditLog)].evaluationId = returned.verdict.evaluationId
         /\ auditLog[Len(auditLog)].decision = returned.verdict.decision
    /\ \A i, j \in 1..Len(auditLog) :
          auditLog[i].evaluationId = auditLog[j].evaluationId => i = j

\* C8: evaluate on an unfrozen shield, given a transaction with a malformed
\* 'to', value or data, returns a block verdict whose only reason is of
\* severity high and source 'policy'.
C8MalformedBlocked ==
    ( /\ returned.op = "evaluate"
      /\ ~returned.startedFrozen
      /\ \/ ~isValidEthereumAddress(returned.tx.to)
         \/ returned.tx.value.kind = "nan"
         \/ returned.tx.data.kind = "nothex" )
    => /\ returned.kind = "verdict"
       /\ returned.verdict.decision = "block"
       /\ Len(returned.verdict.reasons) = 1
       /\ returned.verdict.reasons[1].severity = "high"
       /\ returned.verdict.reasons[1].source = "policy"

\* C9: evaluate given a well-formed transaction never raises, whatever the
\* operator's middleware does: it resolves with a verdict, which is the
\* last entry of the audit log.
C9NeverRaises ==
    ( /\ returned.op \in EvaluateOps
      /\ validateTransactionRequest(returned.tx) = "null" )
    => /\ returned.kind = "verdict"
       /\ auditLog # <<>>
       /\ auditLog[Len(auditLog)].evaluationId = returned.verdict.evaluationId

LeavesNoBlockingTier(tiers) ==
    \/ tiers = <<>>
    \/ \A i \in 1..Len(tiers) :
          tiers[i].enforcement.mode \notin {"guardian", "fortress"}

\* C10: an updatePolicy call whose overrides leave no tier, or no guardian
\* or fortress tier, raises and leaves the policy as it was; any other
\* updatePolicy call returns and makes the overrides' tiers the policy's
\* tiers; no other step of this specification (whose middleware leaves
\* ctx.policy alone) changes the policy, so no evaluation is decided by
\* a tier of a rejected update.
C10PolicyGuardrails ==
    [][ /\ (returned'.op = "updatePolicy"
            /\ LeavesNoBlockingTier(returned'.overrides.tiers))
           => (returned'.kind = "raised" /\ policy' = policy)
        /\ (returned'.op = "updatePolicy"
            /\ ~LeavesNoBlockingTier(returned'.overrides.tiers))
           => /\ returned'.kind = "void"
              /\ policy' = [policy EXCEPT !.tiers = returned'.overrides.tiers]
        /\ returned'.op # "updatePolicy" => policy' = policy
        /\ returned'.verdict.tierId # "audit-only" ]_vars

\* a rejected update, after an accepted one, with the accepted policy kept
C10Witness ==
    /\ returned.op = "updatePolicy"
    /\ returned.kind = "raised"
    /\ returned.overrides.tiers = AuditOnlyTiers
    /\ policy.tiers = GuardianOnlyTiers

HasReason(verdict, code) ==
    \E k \in 1..Len(verdict.reasons) : verdict.reasons[k].code = code

\* C11: an evaluation whose pipeline ended with a custom middleware's
\* replacement on ctx.metadata.verdict does not return that replacement: the
\* verdict returned carries a reason MIDDLEWARE_VERDICT_TAMPER_BLOCKED and its
\* evaluationId is not the middleware's.
C11TamperBlocked ==
    [][ \A i \in 1..Len(inflight) :
          ( /\ inflight' = RemoveAt(inflight, i)
            /\ ~inflight[i].threw
            /\ inflight[i].verdict = TamperedVerdict )
          => /\ returned'.kind = "verdict"
             /\ returned'.verdict.evaluationId # TamperedId
             /\ HasReason(returned'.verdict, "MIDDLEWARE_VERDICT_TAMPER_BLOCKED")
      ]_vars

\* C12: no evaluation changes the shield's policy, whatever the custom
\* middleware does with ctx.policy: the denylist stays the configured one,
\* and an evaluation of a target that is not on it carries no
\* DENYLISTED_ADDRESS reason.
C12PolicyUnchanged ==
    /\ policy = DefaultPolicy
    /\ ( /\ returned.op \in EvaluateOps
         /\ returned.kind = "verdict"
         /\ returned.tx = TxOk )
       => ~HasReason(returned.verdict, "DENYLISTED_ADDRESS")

\* an evaluation returned a verdict decided by a tier of mode audit
IsAuditVerdict ==
    /\ returned.op \in EvaluateOps
    /\ returned.kind = "verdict"
    /\ returned.verdict.tierMode = "audit"

CriticalFindingCodes ==
    {"DENYLISTED_ADDRESS", "CONTRACT_SELFDESTRUCT",
     "CONTRACT_UNSAFE_DELEGATECALL", "INFINITE_APPROVAL"}

\* C14: when the policy engine runs with a matched tier of mode copilot,
\* guardian or fortress and one of DENYLISTED_ADDRESS, CONTRACT_SELFDESTRUCT,
\* CONTRACT_UNSAFE_DELEGATECALL, INFINITE_APPROVAL among the reasons, the
\* verdict's decision is 'block', whatever the composite score and the other
\* reasons are.
C14NamedFindingsForceBlock ==
    [][ ( /\ ppc = "policyEngine"
          /\ pctx.tier.enforcement.mode \in {"copilot", "guardian", "fortress"}
          /\ \E i \in 1..Len(pctx.reasons) :
                 pctx.reasons[i].code \in CriticalFindingCodes )
        => pctx'.verdict.decision = "block" ]_vars

CoreOrder ==
    << "contextAnalyzer", "transactionDecoder", "valueAssessor",
       "addressChecker", "contractChecker", "behavioralComparator" >>

\* the order of the stages of a pipeline with n registered middlewares
StageOrder(n) ==
    CoreOrder \o [k \in 1..n |-> CustomStage(k)]
              \o << "riskAggregator", "policyEngine" >>

\* C17: the stages a pipeline run enters are an initial part of the order
\* context analyzer, transaction decoder, value assessor, address checker,
\* contract checker, behavioral comparator, the registered middlewares in
\* registration order, risk aggregator, policy engine, each entered once;
\* a run in which no stage throws and every registered middleware calls
\* next enters all of them.
C17StagesInOrder ==
    [][ (ppc = "composed" /\ ppc' # "composed") =>
          LET ran == pctx'.stagesRun
              order == StageOrder(Len(customMiddlewares))
          IN  /\ Len(ran) <= Len(order)
              /\ \A j \in 1..Len(ran) : ran[j] = order[j]
              /\ ( /\ ppc' = "resolved"
                   /\ \A k \in 1..Len(customMiddlewares) :
                         customMiddlewares[k] # "noNext" )
                 => ran = order ]_vars

\* a run through two registered middlewares to the policy engine's verdict
C17Witness ==
    /\ ppc = "resolved"
    /\ Len(customMiddlewares) = 2
    /\ pctx.stagesRun = StageOrder(2)
    /\ pctx.verdict.decision = "approve"

\* the k-th registered middleware calls next twice, and the run reached it
\* and came back from its first next() without an error
CalledNextTwice(k, ran) ==
    /\ customMiddlewares[k] = "doubleNext"
    /\ \E j \in 1..Len(ran) : ran[j] = CustomStage(k)
    /\ \E j \in 1..Len(ran) : ran[j] = "policyEngine"
    /\ \A h \in 1..Len(customMiddlewares) :
          customMiddlewares[h] = "throws" => h < k

\* C18: a pipeline run in which a middleware calls next() a second time is
\* rejected with the error 'next() called multiple times in the same
\* middleware', and no stage is entered twice in any run.
C18DoubleNextRaises ==
    [][ (ppc = "composed" /\ ppc' # "composed") =>
          LET ran == pctx'.stagesRun
          IN  /\ \A i, j \in 1..Len(ran) : ran[i] = ran[j] => i = j
              /\ \A k \in 1..Len(customMiddlewares) :
                    CalledNextTwice(k, ran)
                    => (ppc' = "rejected" /\ pctx'.error = MULTIPLE_NEXT) ]_vars

\* the first of two middlewares called next twice: every stage after it ran
\* once and the run was rejected
C18Witness ==
    /\ ppc = "rejected"
    /\ pctx.error = MULTIPLE_NEXT
    /\ customMiddlewares = << "doubleNext", "pass" >>
    /\ pctx.stagesRun = StageOrder(2)

\* C19: an evaluation with conversation context (escalation detection
\* enabled) carries a VALUE_ESCALATION reason exactly when its estimated
\* USD value is at least 5 times that of the oldest evaluation made less
\* than 30 minutes before it, that value being positive.
C19EscalationFlagged ==
    ( /\ returned.op = "evaluateWithContext"
      /\ returned.kind = "verdict"
      /\ ~returned.startedFrozen
      /\ evaluatedValues # <<>> )
    => LET n == Len(evaluatedValues)
           cur == evaluatedValues[n]
           window == {j \in 1..(n - 1) :
                         cur.timestamp - evaluatedValues[j].timestamp
                           < 30 * 60 * 1000}
           oldest == evaluatedValues[CHOOSE j \in window :
                                        \A h \in window : j <= h]
       IN  HasReason(returned.verdict, "VALUE_ESCALATION")
             <=> ( /\ window # {}
                   /\ oldest.valueUsd > 0
                   /\ cur.valueUsd >= 5 * oldest.valueUsd )

(***************************************************************************)
(* Tier resolution over policies whose tiers carry explicit triggers       *)
(* (risk tiering scenarios): one pipeline run per policy and transaction.  *)
(***************************************************************************)
MaxOverrideMinUsd == 999999

\* makeTier(id, mode, minValueAtRiskUsd, undefined, extra)
makeTier(id, mode, minUsd, addrs, fns) ==
    Tier(id, mode,
         IF mode = "fortress" THEN 30 ELSE IF mode = "guardian" THEN 70 ELSE 100,
         minUsd, addrs, fns,
         IF mode = "fortress" THEN 900 ELSE 0)

\* makeTier('tier-audit', 'audit', 0, 1000) and makeTier('tier-guardian',
\* 'guardian', 1000)
ValueTiers ==
    { [makeTier("tier-audit", "audit", 0, {}, {})
         EXCEPT !.triggers.hasMax = TRUE, !.triggers.maxValueAtRiskUsd = 1000],
      makeTier("tier-guardian", "guardian", 1000, {}, {}) }

OverrideMins == {0, MaxOverrideMinUsd}

AddressOverrideTiers ==
    { makeTier("tier-address-override", "fortress", m, {"0xa1"}, {}) :
        m \in OverrideMins }

FunctionOverrideTiers ==
    { makeTier("tier-function-override", "guardian", m, {}, {"approve"}) :
        m \in OverrideMins }

\* every ordering of the members of the set S of tiers
Orderings(S) ==
    { q \in [1..Cardinality(S) -> S] : \A i, j \in DOMAIN q : q[i] = q[j] => i = j }

\* the two value tiers with an address override, a function override, or
\* both, in every order
TieredPolicies ==
    { Policy(q, {}, {}, 4, 3) :
        q \in UNION { Orderings(ValueTiers \cup extra) :
                        extra \in { {a} : a \in AddressOverrideTiers }
                                  \cup { {f} : f \in FunctionOverrideTiers }
                                  \cup { {a, f} : a \in AddressOverrideTiers,
                                                  f \in FunctionOverrideTiers } } }

TieredTxs ==
    { Tx(to, IntValue(v), d) :
        to \in {"0xA1", "0xD1"}, v \in {0, 1},
        d \in {NoData, Data("approve", "small")} }

InitTiers ==
    /\ ShieldInit
    /\ SignerIdle
    /\ pctx \in { createMiddlewareContext(tx, NoConversation, pol, NoBehavior, 1) :
                    tx \in TieredTxs, pol \in TieredPolicies }
    /\ ppc = "contextAnalyzer"

SpecTiers == InitTiers /\ [][NextPipeline]_vars

\* the tiers of the policy that list the transaction's target address
TiersListingAddress(ctx) ==
    { i \in 1..Len(ctx.policy.tiers) :
        \E a \in ctx.policy.tiers[i].triggers.targetAddresses :
            ToLowerCase(a) = ToLowerCase(ctx.transaction.to) }

\* the tiers of the policy that list the decoded function name
TiersListingFunction(ctx) ==
    { i \in 1..Len(ctx.policy.tiers) :
        /\ ctx.decoded.present
        /\ ctx.decoded.functionName
             \in ctx.policy.tiers[i].triggers.functionSignatures }

\* the tiers whose value range holds the estimated USD value
TiersInRange(ctx) ==
    { i \in 1..Len(ctx.policy.tiers) :
        LET tr == ctx.policy.tiers[i].triggers
            est == IF ctx.decoded.present THEN ctx.decoded.estimatedValueUsd ELSE 0
        IN  /\ tr.minValueAtRiskUsd <= est
            /\ (tr.hasMax => est < tr.maxValueAtRiskUsd) }

\* C20: once the risk aggregator has resolved the tier, the matched tier is
\* one that lists the transaction's target address if any tier does;
\* otherwise one that lists the decoded function name if any tier does;
\* otherwise one whose value range holds the estimated USD value if any
\* does; whatever the tiers' minimum values and their order in the policy.
C20TriggersBeforeValue ==
    (ppc \in {"policyEngine", "resolved"})
    => LET byAddress == TiersListingAddress(pctx)
           byFunction == TiersListingFunction(pctx)
           byValue == TiersInRange(pctx)
           chosen == IF byAddress # {} THEN byAddress
                     ELSE IF byFunction # {} THEN byFunction
                     ELSE byValue
       IN  chosen # {} => \E i \in chosen : pctx.tier = pctx.policy.tiers[i]

(***************************************************************************)
(* Approve calls of every class of amount, one pipeline run each.          *)
(***************************************************************************)
ApprovalTxs ==
    { Tx(to, IntValue(v), Data("approve", amt)) :
        to \in {"0xA1", "0xD1"}, v \in {0, 1},
        amt \in {"small", "pow128", "inf"} }

InitApprovals ==
    /\ ShieldInit
    /\ SignerIdle
    /\ pctx \in { createMiddlewareContext(tx, conv, pol, NoBehavior, 1) :
                    tx \in ApprovalTxs, conv \in PipelineConversations,
                    pol \in PipelinePolicies }
    /\ ppc = "contextAnalyzer"

SpecApprovals == InitApprovals /\ [][NextPipeline]_vars

TxThree == Tx("0xA1", IntValue(3), NoData)

DecisionTxs == {TxDenied, TxTwo, TxThree, TxFive}

\* four high-severity injection patterns: context score 100, composite 80
ManyHighFindings ==
    Conversation({"ROLE_OVERRIDE", "BASE64_INSTRUCTION",
                  "HIDDEN_INSTRUCTION_MARKER", "AUTHORIZATION_CLAIM"},
                 "high", "user", FALSE, TRUE)

FortressOnlyTiers == << Tier("fortress-only", "fortress", 30, 0, {}, {}, 0) >>

evaluateDecisions == evaluateCall(DecisionTxs, MaxEvals)
evaluateWithContextDecisions ==
    evaluateWithContextCall({TxOk}, {ManyHighFindings}, MaxEvals)
updatePolicyDecisions == updatePolicyCall({[tiers |-> FortressOnlyTiers]})

NextDecisions ==
    \/ evaluateDecisions
    \/ evaluateWithContextDecisions
    \/ Resume
    \/ updatePolicyDecisions

SpecDecisions == Init /\ [][NextDecisions]_vars

\* C22: a verdict returned by evaluate or evaluateWithContext with decision
\* 'block' and a matched tier of mode guardian or fortress has requiredAction
\* 'human_approval' or 'delay'.
C22BlockRequiresAction ==
    ( /\ returned.kind = "verdict"
      /\ returned.op \in EvaluateOps
      /\ returned.verdict.decision = "block"
      /\ returned.verdict.tierMode \in {"guardian", "fortress"} )
    => returned.verdict.requiredAction \in {"human_approval", "delay"}

\* an approved guardian-tier transfer promoted to a block by the daily
\* volume limit
C22Witness ==
    /\ returned.kind = "verdict"
    /\ returned.verdict.decision = "block"
    /\ returned.verdict.tierMode = "guardian"
    /\ Len(returned.verdict.reasons) = 1
    /\ HasReason(returned.verdict, "DAILY_VOLUME_EXCEEDED")
    /\ returned.verdict.requiredAction = "human_approval"

\* C23: a verdict of decision 'approve' produced under a matched tier of
\* mode guardian or fortress has a composite score strictly below that
\* tier's blockThreshold.
C23ApprovedBelowThreshold ==
    ( /\ ppc = "resolved"
      /\ pctx.verdict.decision = "approve"
      /\ pctx.tier # NoTier
      /\ pctx.tier.enforcement.mode \notin {"audit", "copilot"} )
    => pctx.verdict.composite < pctx.tier.enforcement.blockThreshold

\* a guardian-tier transaction with findings, approved below the threshold
C23Witness ==
    /\ ppc = "resolved"
    /\ pctx.tier.enforcement.mode = "guardian"
    /\ pctx.verdict.decision = "approve"
    /\ pctx.verdict.composite > 0
    /\ pctx.verdict.reasons # <<>>

(***************************************************************************)
(* The audit log at its capacity: the shield after a long run of approved  *)
(* zero-value transfers, two entries short of AUDIT_LOG_MAX, then a few    *)
(* more evaluations, and a caller that reads the log and changes what it   *)
(* was given.                                                              *)
(***************************************************************************)
MaxOverflowEvals == 3

TxZero == Tx("0xA1", IntValue(0), NoData)

\* the entry recorded for the k-th of a run of approved evaluations
ApprovedEntry(k) ==
    [evaluationId |-> Uuid(k), decision |-> "approve", executed |-> TRUE]

InitFullLog ==
    /\ policy = DefaultPolicy
    /\ frozen = FALSE
    /\ freezeReason = Unfrozen
    /\ evaluationCount = AUDIT_LOG_MAX - 2
    /\ blockCount = 0
    /\ advisoryCount = 0
    /\ dailyVolumeWei = 0
    /\ dailyVolumeResetDate = 0
    /\ auditLog = [k \in 1..(AUDIT_LOG_MAX - 2) |-> ApprovedEntry(k)]
    /\ customMiddlewares = <<>>
    /\ today = 0
    /\ nextUuid = AUDIT_LOG_MAX - 1
    /\ inflight = <<>>
    /\ returned = Void({})
    /\ started = AUDIT_LOG_MAX - 2
    /\ settled = AUDIT_LOG_MAX - 2
    /\ escalationTracker = <<>>
    /\ evaluatedValues = <<>>
    /\ ledger = NoLedger
    /\ sinceUnfreeze = NeverUnfrozen
    /\ PipeIdle
    /\ SignerIdle

evaluateFull ==
    evaluateCall({TxZero, TxDeniedZero}, AUDIT_LOG_MAX - 2 + MaxOverflowEvals)

getAuditLogFull == getAuditLogCall({0, 1, 2})

\* the caller changes the array getAuditLog returned: pushes an element,
\* shifts one out or replaces one.  The array is a new one (slice, spread).
ModifyCopy ==
    /\ returned.op = "getAuditLog"
    /\ \E changed \in { Append(returned.log, ApprovedEntry(0)) }
                       \cup (IF returned.log = <<>> THEN {}
                             ELSE { Tail(returned.log),
                                    [returned.log EXCEPT ![1] = ApprovedEntry(0)] }) :
          returned' = [returned EXCEPT !.op = "copyModified", !.log = changed]
    /\ UNCHANGED <<policy, frozen, freezeReason, evaluationCount, blockCount,
                   advisoryCount, dailyVolumeWei, dailyVolumeResetDate, auditLog,
                   customMiddlewares, today, nextUuid, inflight, started, settled>>
    /\ UNCHANGED <<pipeVars, signerVars, trackVars>>

\* the caller assigns to a field of an element of the array getAuditLog
\* returned (entries[k].executed = ...).  The elements of the array are the
\* audit log's own entry objects: slice and spread copy references.
MutateEntry ==
    /\ returned.op = "getAuditLog"
    /\ returned.log # <<>>
    /\ \E k \in {1, Len(returned.log)} :
          LET at == Len(auditLog) - Len(returned.log) + k
          IN  /\ returned' = [returned EXCEPT !.op = "entryMutated",
                                              !.log[k].executed = ~@]
              /\ auditLog' = [auditLog EXCEPT ![at].executed = ~@]
    /\ UNCHANGED <<policy, frozen, freezeReason, evaluationCount, blockCount,
                   advisoryCount, dailyVolumeWei, dailyVolumeResetDate,
                   customMiddlewares, today, nextUuid, inflight, started, settled>>
    /\ UNCHANGED <<pipeVars, signerVars, trackVars>>

NextAuditLog ==
    \/ evaluateFull
    \/ Resume
    \/ getAuditLogFull
    \/ ModifyCopy
    \/ MutateEntry

SpecAuditLog == InitFullLog /\ [][NextAuditLog]_vars

\* a verdict returned by an evaluation was appended to the log, the oldest
\* entry leaving a full log
AppendedInOrder ==
    (returned'.op \in EvaluateOps /\ returned'.kind = "verdict")
    => LET kept == IF Len(auditLog) = AUDIT_LOG_MAX THEN Tail(auditLog)
                   ELSE auditLog
       IN  /\ Len(auditLog') = Len(kept) + 1
           /\ SubSeq(auditLog', 1, Len(kept)) = kept
           /\ auditLog'[Len(auditLog')].evaluationId
                = returned'.verdict.evaluationId

\* getAuditLog(n) returned the n most recent entries in the log's order
ReturnedMostRecent ==
    (returned'.op = "getAuditLog")
    => /\ Len(returned'.log) = Min(returned'.limit, Len(auditLog))
       /\ \A k \in 1..Len(returned'.log) :
             returned'.log[k]
               = auditLog[Len(auditLog) - Len(returned'.log) + k]

\* C24: the audit log never holds more than 10,000 entries; an append to a
\* full log drops the oldest entry and keeps the order of the others;
\* getAuditLog(n) returns the n most recent entries in that order; and no
\* change the caller makes to what getAuditLog returned changes the log.
C24AuditLogBoundedFifo ==
    [][ /\ Len(auditLog') <= AUDIT_LOG_MAX
        /\ AppendedInOrder
        /\ ReturnedMostRecent
        /\ (returned'.op \in {"copyModified", "entryMutated"})
           => auditLog' = auditLog ]_vars

(***************************************************************************)
(* Operator handlers that throw.  config.onBlock, onAdvisory, onFreeze and *)
(* onThreat are called from evaluateInternal and freeze without try/catch  *)
(* (shield.ts:234-241, 273-284, 336-344): an exception thrown by one of    *)
(* them leaves the function at the call.                                   *)
(***************************************************************************)
Handlers == {"onBlock", "onAdvisory", "onFreeze", "onThreat"}

\* the call was left by an exception of the last of the handlers `invoked`
HandlerThrew(op, tx, startedFrozen, invoked) ==
    [Raised(op, tx) EXCEPT !.startedFrozen = startedFrozen,
                           !.callbacks = invoked]

\* shield.ts:234-241: onBlock or onAdvisory throws, right after the counter
\* was incremented
ResumeFirstHandlerThrows(i, h) ==
    LET e == inflight[i]
        v0 == e.verdict
    IN  /\ ~e.threw
        /\ e.verdict # NoVerdict
        /\ \/ h = "onBlock" /\ IsBlocking(v0.decision)
           \/ h = "onAdvisory" /\ v0.decision = "advise"
        /\ blockCount' = blockCount + (IF IsBlocking(v0.decision) THEN 1 ELSE 0)
        /\ advisoryCount' = advisoryCount + (IF v0.decision = "advise" THEN 1 ELSE 0)
        /\ returned' = HandlerThrew(e.op, e.tx, e.startedFrozen, {h})
        /\ UNCHANGED <<policy, frozen, freezeReason, evaluationCount,
                       dailyVolumeWei, dailyVolumeResetDate, auditLog, nextUuid>>

\* shield.ts:261-284: onFreeze or onThreat throws, after the audit entry
\* was recorded and the shield was frozen; onThreat is called after onFreeze
ResumeFreezeHandlerThrows(i, h) ==
    LET e == inflight[i]
        v0 == e.verdict
        approved == v0.decision = "approve"
        volume == IF approved THEN dailyVolumeWei + BigIntOf(e.tx.value)
                  ELSE dailyVolumeWei
        exceeded == approved /\ volume > policy.limits.maxDailyVolumeWei
        v == IF exceeded THEN DailyVolumeExceeded(v0) ELSE v0
        log == recordAudit(auditLog, v, v.decision = "approve")
        freezeNow == IsBlocking(v.decision) /\ RecentBlocks(log) >= AUTO_FREEZE_BLOCKS
        invoked ==
            (IF IsBlocking(v0.decision) THEN {"onBlock"} ELSE {})
            \cup {"onFreeze"}
            \cup (IF h = "onThreat" THEN {"onThreat"} ELSE {})
    IN  /\ ~e.threw
        /\ e.verdict # NoVerdict
        /\ h \in {"onFreeze", "onThreat"}
        /\ freezeNow
        /\ blockCount' = blockCount + (IF IsBlocking(v0.decision) THEN 1 ELSE 0)
                                    + (IF exceeded THEN 1 ELSE 0)
        /\ advisoryCount' = advisoryCount
        /\ dailyVolumeWei' = volume
        /\ auditLog' = log
        /\ frozen' = TRUE
        /\ freezeReason' = AutoFreeze
        /\ returned' = HandlerThrew(e.op, e.tx, e.startedFrozen, invoked)
        /\ UNCHANGED <<policy, evaluationCount, dailyVolumeResetDate, nextUuid>>

\* the resumption of an evaluation during which a handler throws
ResumeHandlerThrows ==
    /\ \E i \in 1..Len(inflight), h \in Handlers :
          /\ \/ ResumeFirstHandlerThrows(i, h)
             \/ ResumeFreezeHandlerThrows(i, h)
          /\ inflight' = RemoveAt(inflight, i)
    /\ settled' = settled + 1
    /\ UNCHANGED <<customMiddlewares, today, started>>
    /\ UNCHANGED <<pipeVars, signerVars, trackVars>>

\* shield.ts:336-344 with an onFreeze that throws
freezeHandlerThrows ==
    /\ frozen' = TRUE
    /\ freezeReason' = ManualFreeze
    /\ returned' = HandlerThrew("freeze", NoTx, frozen, {"onFreeze"})
    /\ UNCHANGED <<policy, evaluationCount, blockCount, advisoryCount,
                   dailyVolumeWei, dailyVolumeResetDate, auditLog,
                   customMiddlewares, today, nextUuid, inflight, started, settled>>
    /\ UNCHANGED <<pipeVars, signerVars, trackVars>>

\* one finding of high severity in the conversation: an advisory in the
\* guardian tier
OneHighFinding == Conversation({"ROLE_OVERRIDE"}, "high", "user", FALSE, TRUE)

evaluateHandlers == evaluateCall(FreezeTxs, MaxFreezeEvals)
evaluateWithContextHandlers ==
    evaluateWithContextCall({TxOk}, {OneHighFinding}, MaxFreezeEvals)

NextHandlers ==
    \/ evaluateHandlers
    \/ evaluateWithContextHandlers
    \/ Resume
    \/ ResumeHandlerThrows
    \/ freezeHandlerThrows
    \/ unfreeze

SpecHandlers == Init /\ [][NextHandlers]_vars

\* C25: when an evaluation whose pipeline produced a verdict resumes, the
\* call returns a verdict of that evaluation id, an audit entry of that id
\* is appended, and the shield is frozen if at least five of the last ten
\* entries are then blocks or freezes; whether or not a handler invoked on
\* the way throws.
C25HandlerExceptionsContained ==
    [][ \A i \in 1..Len(inflight) :
          ( /\ inflight' = RemoveAt(inflight, i)
            /\ ~inflight[i].threw
            /\ inflight[i].verdict # NoVerdict )
          => /\ returned'.kind = "verdict"
             /\ returned'.verdict.evaluationId = inflight[i].verdict.evaluationId
             /\ Len(auditLog') = Len(auditLog) + 1
             /\ auditLog'[Len(auditLog')].evaluationId
                  = inflight[i].verdict.evaluationId
             /\ ( /\ IsBlocking(auditLog'[Len(auditLog')].decision)
                  /\ RecentBlocks(auditLog') >= AUTO_FREEZE_BLOCKS )
                => frozen' ]_vars

(***************************************************************************)
(* Concurrent callers: evaluate returns a promise at its first await, so   *)
(* the caller can start another evaluation, or call freeze() or            *)
(* unfreeze(), before an earlier evaluation resumes; suspended evaluations *)
(* resume in any order (provider calls and custom middleware take          *)
(* different times).                                                       *)
(***************************************************************************)
MaxConcurrent == 2

evaluateConcurrent ==
    /\ \E tx \in FreezeTxs :
          evaluateInternalWithin("evaluate", tx, NoConversation, MaxEvals,
                                 MaxConcurrent)
    /\ UNCHANGED <<pipeVars, signerVars, evaluatedValues, ledger, sinceUnfreeze>>

NextConcurrent ==
    \/ evaluateConcurrent
    \/ Resume
    \/ freeze
    \/ unfreeze

SpecConcurrent == Init /\ [][NextConcurrent]_vars

\* C26: while an evaluation is suspended the only step the shield takes is
\* the resumption of an evaluation, and an evaluation that returns while
\* the shield is frozen by freeze() returns a verdict of decision 'freeze'.
C26OperationsSerialized ==
    [][ /\ (inflight # <<>>) => settled' = settled + 1
        /\ ( /\ frozen
             /\ freezeReason = ManualFreeze
             /\ returned'.op \in EvaluateOps
             /\ returned'.kind = "verdict" )
           => returned'.verdict.decision = "freeze" ]_vars

\* C27: the audit entries are in the order in which their evaluations
\* started (evaluation ids are drawn from the counter nextUuid when the
\* evaluation starts, so they name the start order).
C27AuditOrderedByStart ==
    \A i, j \in 1..Len(auditLog) :
        i < j => auditLog[i].evaluationId[2] < auditLog[j].evaluationId[2]

(***************************************************************************)
(* One connection of the signer server (SignerServer.handleConnection,     *)
(* index.ts:296-321).  The peer writes MaxRequests request lines; each     *)
(* line travels as two halves, the second ending with the newline, and a   *)
(* chunk ('data' event) carries up to MaxChunkHalves consecutive halves.   *)
(* The 'data' listener is an async function: it runs until the first       *)
(* `await` that does not resolve within the same turn of the event loop,   *)
(* which is a signFn call (health checks and rejected tokens resolve at    *)
(* once); other 'data' events are delivered while it is suspended.         *)
(***************************************************************************)
MaxRequests == 3
MaxChunkHalves == 3

\* a health check, a sign request whose token verifies, one whose token
\* does not
ConnectionRequests ==
    { [type |-> "health_check", verifies |-> FALSE],
      [type |-> "sign_transaction", verifies |-> TRUE],
      [type |-> "sign_transaction", verifies |-> FALSE] }

\* the response handleRequest gives (index.ts:323-394), signFn succeeding
ResponseTo(request) ==
    IF request.type = "health_check" THEN SignerResponse(TRUE, "healthy", "none")
    ELSE IF request.verifies THEN SignerResponse(TRUE, "signature", "none")
    ELSE SignerResponse(FALSE, "none", "Invalid approval token")

\* connection.write(JSON.stringify(response) + '\n') for the request of
\* number id
Written(id) == [id |-> id, response |-> ResponseTo(conn.requests[id])]

\* `await this.config.signFn(...)` is reached
AwaitsSignFn(request) == request.type = "sign_transaction" /\ request.verifies

\* the `for` loop over the request numbers `lines`, suspending at the
\* `at`-th of them (at = 0: running to its end): the responses written and
\* the suspended listener left behind
RunLines(lines, at) ==
    [written |-> [k \in 1..(IF at = 0 THEN Len(lines) ELSE at - 1) |->
                    Written(lines[k])],
     suspended |-> IF at = 0 THEN {}
                   ELSE {[awaiting |-> lines[at],
                          rest |-> SubSeq(lines, at + 1, Len(lines))]}]

\* a signFn call may resolve within the turn; the loop then runs on
MaySuspendAt(lines, at) ==
    \/ at = 0
    \/ /\ at \in 1..Len(lines)
       /\ AwaitsSignFn(conn.requests[lines[at]])

\* the request numbers whose newline lies among the halves from..to
CompleteLines(from, to) ==
    LET last == to \div 2
        first == (from + 1) \div 2
    IN  [k \in 1..(last - first + 1) |-> first + k - 1]

InitConnection ==
    /\ ShieldInit
    /\ PipeIdle
    /\ now = 0
    /\ ticks = 0
    /\ minted = {}
    /\ signatures = <<>>
    /\ lastCall = LastCall("none", NothingPresented, <<>>, "", 0, NoResult,
                           NoRequest, NothingHandled)
    /\ client = NoClientCall
    /\ conn \in { [NoConnection EXCEPT !.requests = r] :
                    r \in [1..MaxRequests -> ConnectionRequests] }

\* the peer writes the next halves of its request lines
PeerWrites ==
    /\ \E n \in 1..MaxChunkHalves :
          /\ conn.sent + n <= 2 * MaxRequests
          /\ conn' = [conn EXCEPT
                        !.incoming = Append(@, [from |-> conn.sent + 1,
                                                to |-> conn.sent + n]),
                        !.sent = @ + n]
    /\ UNCHANGED <<now, ticks, minted, lastCall, signatures, client>>
    /\ UNCHANGED <<shieldVars, pipeVars>>

\* connection.on('data'): buffer += data; the complete lines are split off,
\* the rest stays in the buffer; then the loop over the lines starts
OnData ==
    /\ conn.incoming # <<>>
    /\ LET chunk == Head(conn.incoming)
           lines == CompleteLines(chunk.from, chunk.to)
       IN  \E at \in 0..Len(lines) :
              /\ MaySuspendAt(lines, at)
              /\ conn' = [conn EXCEPT
                            !.incoming = Tail(@),
                            !.buffer = IF chunk.to % 2 = 1
                                       THEN (chunk.to + 1) \div 2 ELSE 0,
                            !.written = @ \o RunLines(lines, at).written,
                            !.suspended = @ \cup RunLines(lines, at).suspended]
    /\ UNCHANGED <<now, ticks, minted, lastCall, signatures, client>>
    /\ UNCHANGED <<shieldVars, pipeVars>>

\* signFn resolves: the suspended listener writes the response and goes on
\* with the rest of its lines
SignFnResolves ==
    /\ \E h \in conn.suspended, at \in 0..MaxRequests :
          /\ at <= Len(h.rest)
          /\ MaySuspendAt(h.rest, at)
          /\ conn' = [conn EXCEPT
                        !.written = Append(@, Written(h.awaiting))
                                      \o RunLines(h.rest, at).written,
                        !.suspended = (@ \ {h}) \cup RunLines(h.rest, at).suspended]
    /\ UNCHANGED <<now, ticks, minted, lastCall, signatures, client>>
    /\ UNCHANGED <<shieldVars, pipeVars>>

NextConnection ==
    \/ PeerWrites
    \/ OnData
    \/ SignFnResolves

SpecConnection == InitConnection /\ [][NextConnection]_vars

\* C28: on one connection at most one request is being handled at a time,
\* and the responses are written in the order in which the requests were
\* received.
C28RequestsInOrder ==
    /\ Cardinality(conn.suspended) <= 1
    /\ \A k \in 1..Len(conn.written) : conn.written[k].id = k

(***************************************************************************)
(* One call of SignerClient.sendRequest (index.ts:418-466).  The client    *)
(* is constructed with a timeout or without one.  Whatever listens on the  *)
(* socket path writes up to MaxResponseLines lines; as on the server side  *)
(* each line travels as two halves, the first of which is not yet valid    *)
(* JSON, and a 'data' event carries up to MaxChunkHalves halves.  Time     *)
(* passes in steps of ClientTickMs up to MaxClientMs.  A destroyed socket  *)
(* emits no further events; the timer callback may run late, never early.  *)
(***************************************************************************)
DEFAULT_TIMEOUT_MS == 10000
ClientTickMs == DEFAULT_TIMEOUT_MS \div 2
MaxClientTicks == 4
MaxResponseLines == 2

\* SignerClientConfig.timeout: absent, or a number of milliseconds
Ms(n) == [kind |-> "num", n |-> n]
ClientTimeouts == {UndefValue, Ms(0), Ms(ClientTickMs), Ms(3 * ClientTickMs)}

\* this.config.timeout ?? 10_000
TimeoutOf(config) == IF config = UndefValue THEN DEFAULT_TIMEOUT_MS ELSE config.n

Unsettled == <<"pending">>
ResolvedWith(line) == <<"resolved", line>>
RejectedWith(message) == <<"rejected", message>>

\* the mutant of the guard: the flag is never consulted
NeverSettled(c) == FALSE

\* `resolved`, as the three callbacks read it
AlreadySettled(c) == c.resolved

\* resolve(...) or reject(...): the promise keeps its first outcome
Settle(c, outcome) ==
    [c EXCEPT !.resolved = TRUE,
              !.settled = @ + 1,
              !.outcome = IF @ = Unsettled THEN outcome ELSE @]

\* the timer callback (426-432)
OnTimeout(c) ==
    IF AlreadySettled(c) THEN c
    ELSE [Settle(c, RejectedWith("Signer request timed out")) EXCEPT
            !.phase = "destroyed"]

\* one iteration of the loop over the lines of the buffer (442-455): line
\* number `line` parses iff both of its halves are in the buffer
OnLine(c, line) ==
    IF 2 * line > c.buffer \/ AlreadySettled(c) THEN c
    ELSE [Settle(c, ResolvedWith(line)) EXCEPT
            !.timer = IF @ = "armed" THEN "cleared" ELSE @,
            !.phase = "destroyed"]

RECURSIVE OnLines(_, _)
OnLines(c, line) ==
    IF line > MaxResponseLines THEN c ELSE OnLines(OnLine(c, line), line + 1)

\* the 'error' listener (458-464); the socket that emitted it is closed
OnError(c) ==
    IF AlreadySettled(c) THEN [c EXCEPT !.phase = "destroyed"]
    ELSE [Settle(c, RejectedWith("connection error")) EXCEPT
            !.timer = IF @ = "armed" THEN "cleared" ELSE @,
            !.phase = "destroyed"]

InitClient ==
    /\ ShieldInit
    /\ PipeIdle
    /\ now = 0
    /\ ticks = 0
    /\ minted = {}
    /\ signatures = <<>>
    /\ lastCall = LastCall("none", NothingPresented, <<>>, "", 0, NoResult,
                           NoRequest, NothingHandled)
    /\ conn = NoConnection
    /\ client \in { [NoClientCall EXCEPT !.config = t] : t \in ClientTimeouts }

clientUnchanged ==
    /\ UNCHANGED <<now, ticks, minted, lastCall, signatures, conn>>
    /\ UNCHANGED <<shieldVars, pipeVars>>

\* sendRequest: net.createConnection and setTimeout
sendRequest ==
    /\ client.phase = "idle"
    /\ client' = [client EXCEPT !.phase = "connecting",
                                !.timeout = TimeoutOf(client.config),
                                !.timer = "armed"]
    /\ clientUnchanged

\* 'connect': the one client.write of the request
Connect ==
    /\ client.phase = "connecting"
    /\ client' = [client EXCEPT !.phase = "connected", !.writes = @ + 1]
    /\ clientUnchanged

\* 'data': buffer += data, then the loop over buffer.split('\n')
ServerData ==
    /\ client.phase = "connected"
    /\ \E n \in 1..MaxChunkHalves :
          /\ client.buffer + n <= 2 * MaxResponseLines
          /\ client' = OnLines([client EXCEPT !.buffer = @ + n], 1)
    /\ clientUnchanged

\* 'error': the connection is refused, or breaks
SocketError ==
    /\ client.phase \in {"connecting", "connected"}
    /\ client' = OnError(client)
    /\ clientUnchanged

ClientTick ==
    /\ client.phase # "idle"
    /\ client.elapsed < MaxClientTicks * ClientTickMs
    /\ client' = [client EXCEPT !.elapsed = @ + ClientTickMs]
    /\ clientUnchanged

\* the timer callback runs: not before `timeout` ms, not after clearTimeout
TimerExpires ==
    /\ client.timer = "armed"
    /\ client.elapsed >= client.timeout
    /\ client' = [OnTimeout(client) EXCEPT !.timer = "fired"]
    /\ clientUnchanged

NextClient ==
    \/ sendRequest
    \/ Connect
    \/ ServerData
    \/ SocketError
    \/ ClientTick
    \/ TimerExpires

\* time passes, and the event loop runs a timer callback that is due
SpecClient ==
    /\ InitClient
    /\ [][NextClient]_vars
    /\ WF_vars(ClientTick)
    /\ WF_vars(TimerExpires)

\* what one step of a request may do to its outcome
SettlesAtMostOnce ==
    /\ client'.settled <= 1
    /\ client'.writes <= 1
    /\ client.outcome # Unsettled => client'.outcome = client.outcome
    /\ client.outcome = Unsettled /\ client'.outcome # Unsettled =>
          \/ /\ client'.outcome = ResolvedWith(1)
             /\ client.buffer < 2
             /\ client'.buffer >= 2
          \/ /\ client'.outcome = RejectedWith("Signer request timed out")
             /\ client.buffer < 2
             /\ client.elapsed >= (IF client.config = UndefValue THEN 10000
                                    ELSE client.config.n)
          \/ /\ client'.outcome = RejectedWith("connection error")
             /\ client'.buffer = client.buffer

\* C29: every request settles exactly once -- with the first complete
\* response line, or with 'Signer request timed out' once the timeout
\* (10000 ms unless configured) has elapsed without a response, or with the
\* connection error; once settled the outcome never changes, and the
\* request is written at most once.
C29SettlesExactlyOnce ==
    /\ [][SettlesAtMostOnce]_vars
    /\ (client.phase # "idle") ~> (client.outcome # Unsettled /\ client.settled = 1)

C29Witness ==
    /\ client.outcome = RejectedWith("Signer request timed out")
    /\ client.config = UndefValue
    /\ client.elapsed >= 10000
    /\ client.writes = 1
    /\ client.settled = 1

(***************************************************************************)
(* The policy engine's switch over the tier mode, seen from the verdict of *)
(* a finished pipeline run.                                                *)
(***************************************************************************)
\* no critical reason, no high-or-critical context reason, value within the
\* per-transaction limit
NoOverrideApplies ==
    /\ ppc = "resolved"
    /\ pctx.tier # NoTier
    /\ \A i \in 1..Len(pctx.verdict.reasons) :
          /\ pctx.verdict.reasons[i].severity # "critical"
          /\ ~ ( /\ pctx.verdict.reasons[i].source = "context"
                 /\ pctx.verdict.reasons[i].severity = "high" )
    /\ BigIntOf(pctx.transaction.value) <= pctx.policy.limits.maxTransactionValueWei

InitScores ==
    /\ ShieldInit
    /\ SignerIdle
    /\ pctx \in { createMiddlewareContext(tx, NoConversation, DefaultPolicy,
                                          NoBehavior, 1) :
                    tx \in { Tx("0xA1", IntValue(v), NoData) : v \in {0, 1} } }
    /\ ppc = "contextAnalyzer"

RunBehavioralComparatorThenCustom == RunStage("behavioralComparator", behavioralComparator(pctx), "custom1")

\* the middleware: ctx.riskScores = {...}; await next()
WriteScores ==
    /\ ppc = "custom1"
    /\ \E c \in ContextScores, t \in TransactionScores, b \in BehavioralScores :
          pctx' = Ran([pctx EXCEPT !.riskScores.context = c,
                                   !.riskScores.transaction = t,
                                   !.riskScores.behavioral = b],
                      CustomStage(1))
    /\ ppc' = "riskAggregator"
    /\ UNCHANGED <<shieldVars, signerVars>>

NextScores ==
    \/ RunContextAnalyzer
    \/ RunTransactionDecoder
    \/ RunValueAssessor
    \/ RunAddressChecker
    \/ RunContractChecker
    \/ RunBehavioralComparatorThenCustom
    \/ WriteScores
    \/ RunRiskAggregator
    \/ RunPolicyEngine

SpecScores == InitScores /\ [][NextScores]_vars

AggregatorHasRun == ppc \in {"policyEngine", "resolved"}

\* C31: after the risk aggregator has run, composite is the weighted sum
\* 0.40 context + 0.35 transaction + 0.25 behavioral (a missing component
\* counting as 0) rounded to the nearest integer and clamped to [0, 100],
\* raised to at least 80 when a component is >= 90; it is an integer in
\* [0, 100].
C31CompositeIsRoundedWeightedSum ==
    AggregatorHasRun =>
      LET sc == pctx.riskScores
          clamped == Max(0, Min(100, RoundedWeightedSum(sc.context, sc.transaction,
                                                        sc.behavioral)))
      IN  /\ sc.context >= 0 /\ sc.transaction >= 0 /\ sc.behavioral >= 0
          /\ sc.composite \in 0..100
          /\ sc.composite =
               IF sc.context >= 90 \/ sc.transaction >= 90 \/ sc.behavioral >= 90
               THEN Max(clamped, 80) ELSE clamped

\* a reason of source 'context' and severity 'high' or 'critical'
HasHighContextReason(reasons) ==
    \E i \in 1..Len(reasons) :
       /\ reasons[i].source = "context"
       /\ reasons[i].severity \in {"high", "critical"}

\* C32: under a matched tier of mode copilot, guardian or fortress, a
\* verdict whose reasons hold a high or critical context finding is never
\* 'approve', whatever the composite score is.
C32HighContextNeverApproved ==
    ( /\ ppc = "resolved"
      /\ pctx.tier # NoTier
      /\ pctx.tier.enforcement.mode \in {"copilot", "guardian", "fortress"}
      /\ HasHighContextReason(pctx.verdict.reasons) )
    => pctx.verdict.decision \in {"advise", "block"}

\* a copilot tier and a guardian tier, each with a composite its mode alone
\* would approve, advising because of the context finding
C32Witness ==
    /\ ppc = "resolved"
    /\ HasHighContextReason(pctx.verdict.reasons)
    /\ pctx.verdict.decision = "advise"
    /\ \/ /\ pctx.tier.enforcement.mode = "copilot"
          /\ pctx.verdict.composite <= 50
       \/ /\ pctx.tier.enforcement.mode = "guardian"
          /\ 10 * pctx.verdict.composite < 6 * pctx.tier.enforcement.blockThreshold

(***************************************************************************)
(* The pipeline of a shield with an intelligence provider: targets in      *)
(* either case and without the 0x prefix, allowlists and denylists that    *)
(* overlap, reputation lookups and contract analyses that return data,     *)
(* return null, or fail.  Both lookups come from the one provider object,  *)
(* so either both exist or neither does.                                   *)
(***************************************************************************)
IntelTxs ==
    { Tx(to, IntValue(v), d) :
        to \in {"0xA1", "0xa1", "0xD1", "D1"}, v \in {0, 1},
        d \in {NoData, Data("multicall", "na")} }

IntelPolicies ==
    { [Policy(DefaultTiers, allow, deny, 4, 3)
         EXCEPT !.allowlists.contracts = contracts] :
        allow \in {{}, {"0xA1"}, {"0xa1", "0xD1"}},
        contracts \in {{}, {"0xd1"}},
        deny \in {{}, {"0xd1"}, {"0xD1"}, {"0xA1"}} }

IntelReputations ==
    { NullReputation, ThrowingReputation, Reputation(3, 2, 1, FALSE),
      Reputation(30, 100, 0, TRUE), Reputation(3, 2, 2, TRUE) }

IntelAnalyses ==
    { NoAnalysis, ThrowingAnalysis,
      ContractAnalysis(TRUE, FALSE, TRUE, FALSE, "safe", FALSE),
      ContractAnalysis(FALSE, TRUE, FALSE, TRUE, "high", TRUE) }

IntelLookups ==
    { <<NoReputation, NoAnalysis>> }
      \cup { <<r, a>> : r \in IntelReputations, a \in IntelAnalyses }

InitIntel ==
    /\ ShieldInit
    /\ SignerIdle
    /\ pctx \in { [createMiddlewareContext(tx, NoConversation, pol, NoBehavior, 1)
                      EXCEPT !.reputation = lookup[1], !.analysis = lookup[2]] :
                    tx \in IntelTxs, pol \in IntelPolicies,
                    lookup \in IntelLookups }
    /\ ppc = "contextAnalyzer"

SpecIntel == InitIntel /\ [][NextPipeline]_vars

\* the symbolic addresses that spell the same address
SameAddress(a, b) ==
    \/ {a, b} \subseteq {"0xA1", "0xa1"}
    \/ {a, b} \subseteq {"0xD1", "0xd1", "D1"}

OnDenylist(ctx) ==
    \E a \in ctx.policy.denylists.addresses : SameAddress(a, ctx.transaction.to)

OnAllowlist(ctx) ==
    \E a \in ctx.policy.allowlists.addresses \cup ctx.policy.allowlists.contracts :
       SameAddress(a, ctx.transaction.to)

HasDenylistReason(reasons) ==
    \E i \in 1..Len(reasons) :
       /\ reasons[i].code = "DENYLISTED_ADDRESS"
       /\ reasons[i].severity = "critical"

\* what the address checker does to a context with a target
AddressCheckerStep ==
    /\ ppc = "addressChecker"
    /\ ppc' = "contractChecker"
    /\ pctx.transaction.to # ""

\* C33: the denylist takes precedence over the allowlist -- a denylisted
\* target gets DENYLISTED_ADDRESS (critical) and a transaction score of 100
\* also when it is allowlisted; an allowlisted target that is not denylisted
\* adds 0 to the transaction score whatever the reputation lookup reported;
\* addresses are compared without regard to case.
C33DenylistBeforeAllowlist ==
    [][ AddressCheckerStep =>
          /\ OnDenylist(pctx) =>
                /\ HasDenylistReason(pctx'.reasons)
                /\ pctx'.riskScores.transaction = 100
          /\ ~OnDenylist(pctx) =>
                /\ ~HasDenylistReason(pctx'.reasons)
                /\ OnAllowlist(pctx) =>
                      pctx'.riskScores.transaction = pctx.riskScores.transaction
      ]_vars

\* a target on both lists, spelled differently on each, scored 100
C33Witness ==
    /\ ppc = "contractChecker"
    /\ pctx.transaction.to = "D1"
    /\ pctx.policy.denylists.addresses = {"0xD1"}
    /\ pctx.policy.allowlists.addresses = {"0xa1", "0xD1"}
    /\ pctx.reputation.provider = "data"
    /\ HasDenylistReason(pctx.reasons)
    /\ pctx.riskScores.transaction = 100

\* the reasons by which a failed lookup is noted
IsUnavailableNote(reason) ==
    /\ reason.code \in {"INTELLIGENCE_UNAVAILABLE", "CONTRACT_ANALYSIS_UNAVAILABLE"}
    /\ reason.severity = "info"

IsFinding(reason) == ~IsUnavailableNote(reason)

\* the same evaluation on a shield with no provider configured
WithoutProvider(ctx) ==
    buildPipeline(createMiddlewareContext(ctx.transaction, ctx.conversationContext,
                                          ctx.policy, ctx.behavior, 1),
                  <<>>)

\* no lookup of this evaluation returned data, and one of them failed
LookupsFailed(ctx) ==
    /\ ctx.reputation.provider \in {"throws", "null"}
    /\ ctx.analysis \in {ThrowingAnalysis, NoAnalysis}
    /\ ctx.reputation.provider = "throws" \/ ctx.analysis = ThrowingAnalysis

\* the lookups of this evaluation that were made and failed
FailedLookups(ctx) ==
    (IF ctx.reputation.provider = "throws" /\ ctx.transaction.to # ""
     THEN 1 ELSE 0)
    + (IF /\ ctx.analysis = ThrowingAnalysis
          /\ ctx.transaction.to # ""
          /\ ctx.transaction.data.kind \notin {"undef", "0x"}
       THEN 1 ELSE 0)

\* C34: an evaluation whose reputation or contract-analysis lookup fails
\* ends with the risk scores, the matched tier and the decision of the same
\* evaluation without a provider, and with the same reasons plus one reason
\* of severity 'info' for each failed lookup.
C34FailedLookupChangesNothing ==
    (ppc = "resolved" /\ LookupsFailed(pctx)) =>
      LET plain == WithoutProvider(pctx)
      IN  /\ ~plain.threw
          /\ pctx.riskScores = plain.riskScores
          /\ pctx.tier = plain.tier
          /\ pctx.verdict.decision = plain.verdict.decision
          /\ pctx.verdict.requiredAction = plain.verdict.requiredAction
          /\ SelectSeq(pctx.verdict.reasons, IsFinding) = plain.verdict.reasons
          /\ Len(pctx.verdict.reasons) =
               Len(plain.verdict.reasons) + FailedLookups(pctx)

\* a call with calldata whose contract analysis failed, after a reputation
\* lookup that returned null: one added reason
C34Witness ==
    /\ ppc = "resolved"
    /\ pctx.reputation = NullReputation
    /\ pctx.analysis = ThrowingAnalysis
    /\ Len(SelectSeq(pctx.verdict.reasons, IsUnavailableNote)) = 1
    /\ pctx.verdict.decision = "approve"

(***************************************************************************)
(* The daily volume over a change of day: transfers of 1 and 2 ETH under   *)
(* the default policy (3 ETH a day), up to MaxConcurrent of them in flight *)
(* at a time, freezes and unfreezes, and midnight passing.  `ledger` keeps *)
(* the day each evaluation in flight started on and the sums of the values *)
(* returned as 'approve': per day of start, per day of return, and since   *)
(* the last reset of the shield's counter.                                 *)
(***************************************************************************)
MaxDailyEvals == 4

DailyTxs == { Tx("0xA1", IntValue(v), NoData) : v \in {1, 2} }

evaluateDaily ==
    /\ \E tx \in DailyTxs :
          evaluateInternalWithin("evaluate", tx, NoConversation, MaxDailyEvals,
                                 MaxConcurrent)
    /\ ledger' = IF frozen THEN ledger
                 ELSE [ledger EXCEPT
                         !.starts = Append(@, today),
                         !.sinceReset = IF today # dailyVolumeResetDate
                                        THEN 0 ELSE @]
    /\ UNCHANGED <<pipeVars, signerVars, evaluatedValues, sinceUnfreeze>>

\* the value of the evaluation that has just returned, if it was approved
ApprovedValue(outcome) ==
    IF outcome.kind = "verdict" /\ outcome.verdict.decision = "approve"
    THEN BigIntOf(outcome.tx.value) ELSE 0

ResumeDaily ==
    /\ \E i \in 1..Len(inflight) :
          /\ ResumeAt(i)
          /\ ledger' = [ledger EXCEPT
                          !.starts = RemoveAt(@, i),
                          !.byStart[ledger.starts[i]] = @ + ApprovedValue(returned'),
                          !.byReturn[today] = @ + ApprovedValue(returned'),
                          !.sinceReset = @ + ApprovedValue(returned')]
    /\ UNCHANGED <<pipeVars, signerVars, escalationTracker, evaluatedValues,
                   sinceUnfreeze>>

NextDaily ==
    \/ evaluateDaily
    \/ ResumeDaily
    \/ freeze
    \/ unfreeze
    \/ NextDay

SpecDaily == Init /\ [][NextDaily]_vars

\* C35: under a fixed policy the values of the transactions evaluated on
\* one day and returned as 'approve' never add up to more than
\* maxDailyVolumeWei -- whether an evaluation belongs to the day it started
\* on or to the day it returned on.
C35ApprovedWithinDailyLimit ==
    \/ \A d \in 0..MaxDays : ledger.byStart[d] <= policy.limits.maxDailyVolumeWei
    \/ \A d \in 0..MaxDays : ledger.byReturn[d] <= policy.limits.maxDailyVolumeWei

\* C36: dailyVolumeWei, as getStatus reports it, is the sum of the values
\* returned as 'approve' since the counter was last reset; an evaluation
\* that ends as 'block', 'advise' or 'freeze' leaves it unchanged.
C36VolumeIsApprovedSum == dailyVolumeWei = ledger.sinceReset


(***************************************************************************)
(* Signing requests: a caller that holds approval tokens asks the signer   *)
(* for signatures over serialized transactions and messages of its own     *)
(* choice, as SignerClient.signTransaction and signMessage let it          *)
(* (index.ts:468-503).                                                     *)
(***************************************************************************)
MaxSignatures == 2

\* a serialized transaction: the marker "t", "x" followed by its contents
Serialized(contents) == <<"t", "x">> \o contents

\* the hash of a serialized transaction, one hash per contents
TransactionHashOf(serializedTx) == SubSeq(serializedTx, 3, Len(serializedTx))

SerializedTxs == { Serialized(h) : h \in Hashes }

\* the tokens the caller holds as they were generated
Held == { p \in Presentable : ~p.forged }

SigningRequests ==
    { SignerRequest("sign_transaction", h, p.token, s) :
        h \in Hashes, p \in Held, s \in SerializedTxs }
    \cup { SignerRequest("sign_message", h, p.token, <<>>) :
             h \in Hashes, p \in Held }

\* the server has handed the caller a signature
Signed(handled) == handled.response.success /\ handled.response.data = "signature"

\* one sign request read from the socket and answered (index.ts:296-321,
\* 334-389)
SignRequest ==
    /\ Len(signatures) < MaxSignatures
    /\ \E request \in SigningRequests, signThrows \in BOOLEAN :
          LET handled == handleRequest(request, now, signThrows)
          IN  /\ lastCall' = LastCall("handleRequest", NothingPresented, <<>>,
                                      "", now, NoResult, request, handled)
              /\ signatures' = IF Signed(handled)
                               THEN Append(signatures, request.approvalToken)
                               ELSE signatures
    /\ UNCHANGED <<now, ticks, minted, ipcVars>>
    /\ UNCHANGED <<shieldVars, pipeVars>>

NextSigning ==
    \/ Tick
    \/ Generate
    \/ SignRequest

SpecSigning == Init /\ [][NextSigning]_vars

\* the last request was a sign_transaction that the server signed
SignedTransaction ==
    /\ lastCall.op = "handleRequest"
    /\ lastCall.request.type = "sign_transaction"
    /\ lastCall.response.success

\* C37: for every successful sign_transaction response, the serializedTx
\* handed to signFn is the transaction whose hash the approval token was
\* generated for: the token of the request was generated for the hash of
\* the serialized transaction that was signed.
C37SignsWhatWasApproved ==
    SignedTransaction =>
        \A call \in { lastCall.calls[i] : i \in 1..Len(lastCall.calls) } :
            call.fn = "signFn" =>
                \E m \in minted :
                    /\ m.token = lastCall.request.approvalToken
                    /\ m.hash = TransactionHashOf(call.arg)

\* C38: an approval token yields at most one signature: no token is
\* among the tokens the signer has signed for more than once.
C38TokenSignsOnce ==
    \A i, j \in 1..Len(signatures) : signatures[i] = signatures[j] => i = j


(***************************************************************************)
(* The policy replaced while evaluations are in flight: updatePolicy with  *)
(* new limits between the start of an evaluation and its resumption.       *)
(***************************************************************************)
MaxSnapshotEvals == 3

SnapshotTxs == { Tx("0xA1", IntValue(v), NoData) : v \in {1, 2, 5} }

LimitOverrides ==
    { [limits |-> [maxTransactionValueWei |-> maxTx, maxDailyVolumeWei |-> maxDaily]] :
        maxTx \in {1, 4}, maxDaily \in {1, 3} }

evaluateSnapshot ==
    /\ \E tx \in SnapshotTxs :
          evaluateInternalWithin("evaluate", tx, NoConversation,
                                 MaxSnapshotEvals, MaxConcurrent)
    /\ UNCHANGED <<pipeVars, signerVars, evaluatedValues, ledger, sinceUnfreeze>>

updatePolicySnapshot == updatePolicyCall(LimitOverrides)

NextSnapshot ==
    \/ evaluateSnapshot
    \/ Resume
    \/ updatePolicySnapshot

SpecSnapshot == Init /\ [][NextSnapshot]_vars

\* the verdict carries the reason the daily-volume check adds
PromotedByDailyVolume(verdict) ==
    \E i \in 1..Len(verdict.reasons) :
        verdict.reasons[i].code = "DAILY_VOLUME_EXCEEDED"

\* the daily-volume check of evaluation e decided against policy pol
ExceedsDailyUnder(e, pol) ==
    /\ e.verdict.decision = "approve"
    /\ dailyVolumeWei + BigIntOf(e.tx.value) > pol.limits.maxDailyVolumeWei

\* C39: each evaluation is decided against the policy that was active when
\* it started: when an evaluation resumes with the pipeline's verdict, its
\* daily-volume check promotes the verdict exactly if the volume exceeds
\* the limit of the policy the evaluation's context was created with,
\* whatever updatePolicy() has assigned since.
C39OnePolicySnapshot ==
    [][\A i \in 1..Len(inflight) :
          (ResumeAt(i) /\ ~inflight[i].threw /\ inflight[i].verdict # NoVerdict)
          => (PromotedByDailyVolume(returned'.verdict)
                <=> ExceedsDailyUnder(inflight[i], inflight[i].policy))]_vars


(***************************************************************************)
(* The auto-freeze window across unfreeze(): blocked and approved          *)
(* transactions, manual freezes and unfreezes, with the number of 'block'  *)
(* verdicts returned since the last unfreeze() kept as history.            *)
(***************************************************************************)
MaxWindowEvals == 6

evaluateWindow ==
    /\ \E tx \in FreezeTxs :
          evaluateInternal("evaluate", tx, NoConversation, MaxWindowEvals)
    /\ UNCHANGED <<pipeVars, signerVars, trackVars>>

ReturnedBlock(outcome) ==
    outcome.kind = "verdict" /\ outcome.verdict.decision = "block"

ResumeWindow ==
    /\ \E i \in 1..Len(inflight) : ResumeAt(i)
    /\ sinceUnfreeze' = [sinceUnfreeze EXCEPT
                           !.blocks = @ + (IF ReturnedBlock(returned') THEN 1 ELSE 0)]
    /\ UNCHANGED <<pipeVars, signerVars, escalationTracker, evaluatedValues,
                   ledger>>

unfreezeWindow ==
    /\ unfreezeCall
    /\ sinceUnfreeze' = [unfrozen |-> TRUE, blocks |-> 0]
    /\ UNCHANGED <<escalationTracker, evaluatedValues, ledger>>

NextWindow ==
    \/ evaluateWindow
    \/ ResumeWindow
    \/ freeze
    \/ unfreezeWindow

SpecWindow == Init /\ [][NextWindow]_vars

\* C40: after unfreeze() the shield becomes frozen again, other than by a
\* manual freeze(), only once at least AUTO_FREEZE_BLOCKS evaluations since
\* the unfreeze have returned 'block': the audit entries recorded before
\* the unfreeze do not count towards auto-freeze.
C40CleanWindowAfterUnfreeze ==
    [][(sinceUnfreeze.unfrozen /\ ~frozen /\ frozen' /\ freezeReason' = AutoFreeze)
       => sinceUnfreeze'.blocks >= AUTO_FREEZE_BLOCKS]_vars

====
